---- MODULE Spec2Model ----
(***************************************************************************)
(* The Intcode virtual machine of src/lib/cpu/mod.rs: Word arithmetic,     *)
(* Memory, the instruction decoder, the Tracer and the Processor with its  *)
(* single-step primitive and its two run-to-completion drivers.            *)
(*                                                                         *)
(* A Rust Result is a record with a field err: "" stands for Ok and any    *)
(* other string names the CpuFault variant.  An Option is a sequence of    *)
(* length 0 (None) or 1 (Some).                                            *)
(***************************************************************************)
EXTENDS Integers, Sequences, FiniteSets, TLC

(***************************************************************************)
(* Bounds of the model.                                                    *)
(***************************************************************************)
\* Width in bits of the signed integer a Word wraps.  The code uses i64;
\* the model keeps the two's-complement range but at a width TLC can
\* compute with.
WordBits == 16
\* Watchdog on Tracer::event_seqno, which grows with every traced event and
\* would otherwise make a looping program's state space infinite.
MaxSeq == 300
\* How many times in a row the client calls execute_instruction again after
\* a call that did not return Run (a Halt or a fault).
MaxRetries == 1

WordMax == 2 ^ (WordBits - 1) - 1
WordMin == 0 - 2 ^ (WordBits - 1)
InRange(n) == WordMin <= n /\ n <= WordMax

\* pub const NUM_PARAMS
NUM_PARAMS == 4

(***************************************************************************)
(* Word                                                                    *)
(***************************************************************************)
Abs(n) == IF n < 0 THEN 0 - n ELSE n

\* i64::checked_add: None (<<>>) when the mathematical sum is out of range.
I64CheckedAdd(a, b) == IF InRange(a + b) THEN <<a + b>> ELSE <<>>

\* i64::checked_mul: None when the mathematical product is out of range.
\* The product itself is only formed when it is known to fit.
I64CheckedMul(a, b) ==
    IF a = 0 \/ b = 0 THEN <<0>>
    ELSE IF a = WordMin \/ b = WordMin
         THEN (IF a = 1 \/ b = 1 THEN <<WordMin>> ELSE <<>>)
    ELSE IF Abs(a) <= WordMax \div Abs(b) THEN <<a * b>>
    ELSE IF (a < 0) # (b < 0) /\ (WordMax + 1) % Abs(a) = 0
                              /\ (WordMax + 1) \div Abs(a) = Abs(b)
         THEN <<WordMin>>
    ELSE <<>>

\* Word::checked_add
WordCheckedAdd(a, b) ==
    LET t == I64CheckedAdd(a, b)
    IN  IF t # <<>> THEN [err |-> "", val |-> t[1]]
        ELSE [err |-> "Overflow", val |-> 0]

\* Word::checked_add_usize: the usize is first converted to i64.
WordCheckedAddUsize(a, n) ==
    IF ~ (n <= WordMax) THEN [err |-> "Overflow", val |-> 0]
    ELSE LET t == I64CheckedAdd(a, n)
         IN  IF t # <<>> THEN [err |-> "", val |-> t[1]]
             ELSE [err |-> "Overflow", val |-> 0]

\* Word::checked_mul
WordCheckedMul(a, b) ==
    LET t == I64CheckedMul(a, b)
    IN  IF t # <<>> THEN [err |-> "", val |-> t[1]]
        ELSE [err |-> "Overflow", val |-> 0]

\* add with the sum wrapped into the Word range instead of refused.
add_Wraps(a, b) ==
    [err |-> "", val |-> ((a + b - WordMin) % (2 ^ WordBits)) + WordMin]

\* fn add
add(a, b) == WordCheckedAdd(a, b)
\* fn mul
mul(a, b) == WordCheckedMul(a, b)

\* Rust's % and / on i64 truncate toward zero.
RustDiv(a, b) == IF a >= 0 THEN a \div b ELSE 0 - ((0 - a) \div b)
RustRem(a, b) == a - b * RustDiv(a, b)

(***************************************************************************)
(* Decoder                                                                 *)
(***************************************************************************)
\* The match of Opcode::try_from on opcode = instruction % 100.
OpcodeOf(opcode) ==
    CASE opcode = 1 -> [err |-> "", op |-> "Add", code |-> opcode]
      [] opcode = 2 -> [err |-> "", op |-> "Multiply", code |-> opcode]
      [] opcode = 3 -> [err |-> "", op |-> "Read", code |-> opcode]
      [] opcode = 4 -> [err |-> "", op |-> "Write", code |-> opcode]
      [] opcode = 5 -> [err |-> "", op |-> "JumpTrue", code |-> opcode]
      [] opcode = 6 -> [err |-> "", op |-> "JumpFalse", code |-> opcode]
      [] opcode = 7 -> [err |-> "", op |-> "CmpLess", code |-> opcode]
      [] opcode = 8 -> [err |-> "", op |-> "CmpEq", code |-> opcode]
      [] opcode = 9 -> [err |-> "", op |-> "DeltaRelBase", code |-> opcode]
      [] opcode = 99 -> [err |-> "", op |-> "Stop", code |-> opcode]
      [] OTHER -> [err |-> "BadOpcode", op |-> "", code |-> opcode]

\* OpcodeTryFrom with the opcode taken from the last digit alone.
OpcodeTryFrom_LastDigit(instruction) == OpcodeOf(RustRem(instruction, 10))

\* OpcodeTryFrom with the opcode taken as the least non-negative remainder
\* instead of the truncated one of Rust's %.
OpcodeTryFrom_Euclidean(instruction) == OpcodeOf(instruction % 100)

\* impl TryFrom<&Word> for Opcode
OpcodeTryFrom(instruction) == OpcodeOf(RustRem(instruction, 100))

\* The match of AddressingMode::try_from on mode = instruction % 10.
ModeOf(mode) ==
    CASE mode = 0 -> [err |-> "", mode |-> "POSITIONAL", digit |-> mode]
      [] mode = 1 -> [err |-> "", mode |-> "IMMEDIATE", digit |-> mode]
      [] mode = 2 -> [err |-> "", mode |-> "RELATIVE", digit |-> mode]
      [] OTHER -> [err |-> "BadAddressingMode", mode |-> "", digit |-> mode]

\* impl TryFrom<&i64> for AddressingMode
AddressingModeTryFrom(instruction) == ModeOf(RustRem(instruction, 10))

\* The addressing_modes field of a result that carries an error instead.
NoModes == [i \in 0 .. NUM_PARAMS - 1 |-> ""]

\* The array fn getmodes returns, given what AddressingMode::try_from
\* returned for each of the three mode digits: modes[0] is the never-used
\* slot, modes[i] the mode of parameter i.  The first bad digit met, in slot
\* order, is the error.
ModesOf(m1, m2, m3) ==
    IF m1.err # "" THEN [err |-> m1.err, modes |-> NoModes, digit |-> m1.digit]
    ELSE IF m2.err # "" THEN [err |-> m2.err, modes |-> NoModes, digit |-> m2.digit]
    ELSE IF m3.err # "" THEN [err |-> m3.err, modes |-> NoModes, digit |-> m3.digit]
    ELSE [err |-> "",
          modes |-> [i \in 0 .. NUM_PARAMS - 1 |->
                       CASE i = 0 -> "POSITIONAL"
                         [] i = 1 -> m1.mode
                         [] i = 2 -> m2.mode
                         [] OTHER -> m3.mode],
          digit |-> 0]

\* getmodes with the digit of slot 3 never looked at.
getmodes_SkipsSlot3(m) ==
    ModesOf(AddressingModeTryFrom(RustDiv(m, 100)),
            AddressingModeTryFrom(RustDiv(m, 1000)),
            ModeOf(0))

\* fn getmodes
getmodes(m) ==
    ModesOf(AddressingModeTryFrom(RustDiv(m, 100)),
            AddressingModeTryFrom(RustDiv(m, 1000)),
            AddressingModeTryFrom(RustDiv(m, 10000)))

\* The result of DecodedInstruction::try_from given what Opcode::try_from
\* (o) and getmodes (g) returned.  On failure the record is the
\* BadInstruction: kind, the offending code or mode digit, the instruction
\* and address None.
Decoded(instruction, o, g) ==
    IF o.err # ""
    THEN [err |-> "InvalidInstruction", kind |-> "BadOp", bad |-> o.code,
          instruction |-> instruction, address |-> <<>>,
          op |-> "", addressing_modes |-> NoModes]
    ELSE IF g.err # ""
    THEN [err |-> "InvalidInstruction", kind |-> "BadAddrMode", bad |-> g.digit,
          instruction |-> instruction, address |-> <<>>,
          op |-> "", addressing_modes |-> NoModes]
    ELSE [err |-> "", kind |-> "", bad |-> 0,
          instruction |-> instruction, address |-> <<>>,
          op |-> o.op, addressing_modes |-> g.modes]

\* impl TryFrom<&Word> for DecodedInstruction
DecodedInstructionTryFrom(instruction) ==
    Decoded(instruction, OpcodeTryFrom(instruction), getmodes(instruction))

\* WithAddress leaving the address of a decoding error unset.
WithAddress_None(d, pc) == d

\* The match of fn decode: the address of a BadInstruction filled in.
WithAddress(d, pc) == IF d.err = "" THEN d ELSE [d EXCEPT !.address = <<pc>>]

\* fn decode
decode(instruction, pc) == WithAddress(DecodedInstructionTryFrom(instruction), pc)

(***************************************************************************)
(* Memory: content is the BTreeMap (a function whose domain is the set of  *)
(* keys inserted so far), top the high-water mark.                         *)
(***************************************************************************)
\* Memory::new
MemoryNew == [content |-> <<>>, top |-> 0]

\* Insert with a key that is already present keeping its old value.
Insert_KeepsOld(content, addr, value) ==
    [a \in DOMAIN content \cup {addr} |->
        IF a \in DOMAIN content THEN content[a] ELSE value]

\* BTreeMap::insert
Insert(content, addr, value) == (addr :> value) @@ content

Max(a, b) == IF a >= b THEN a ELSE b

\* MemoryPos with every address taken as valid.
MemoryPos_AnyAddress(addr) == [err |-> "", val |-> addr]

\* Memory::pos
MemoryPos(addr) ==
    IF addr < 0 THEN [err |-> "MemoryFault", val |-> 0]
    ELSE [err |-> "", val |-> addr]

\* Memory::fetch
MemoryFetch(ram, addr) ==
    LET a == MemoryPos(addr)
    IN  IF a.err # "" THEN [err |-> a.err, val |-> 0]
        ELSE [err |-> "",
              val |-> IF a.val \in DOMAIN ram.content THEN ram.content[a.val] ELSE 0]

\* MemoryStore with the high-water mark left where it was.
MemoryStore_KeepsTop(ram, addr, value) ==
    LET a == MemoryPos(addr)
    IN  IF a.err # "" THEN [err |-> a.err, ram |-> ram]
        ELSE [err |-> "",
              ram |-> [content |-> Insert(ram.content, a.val, value),
                       top |-> ram.top]]

\* Memory::store
MemoryStore(ram, addr, value) ==
    LET a == MemoryPos(addr)
    IN  IF a.err # "" THEN [err |-> a.err, ram |-> ram]
        ELSE [err |-> "",
              ram |-> [content |-> Insert(ram.content, a.val, value),
                       top |-> Max(ram.top, a.val)]]

\* Two's-complement wrap of an out-of-range sum.
Wrap(n) == ((n - WordMin) % (2 ^ WordBits)) + WordMin

\* The loop of Memory::load from offset k on.  base.0 + offset.0 is a plain
\* i64 addition: on overflow a build with overflow checks panics and a build
\* without them wraps, so overflow_checks is the build's choice.  Words
\* already inserted stay inserted when a later iteration fails.
RECURSIVE LoadFrom(_, _, _, _, _)
LoadFrom(ram, base, program, k, overflow_checks) ==
    IF k > Len(program) THEN [err |-> "", ram |-> ram]
    ELSE LET offset == k - 1
             sum == base + offset
             addr == Wrap(sum)
         IN  IF ~ (offset <= WordMax) THEN [err |-> "MemoryFault", ram |-> ram]
             ELSE IF ~ InRange(sum) /\ overflow_checks THEN [err |-> "panic", ram |-> ram]
             ELSE LoadFrom([content |-> Insert(ram.content, addr, program[k]),
                            top |-> Max(ram.top, addr)],
                           base, program, k + 1, overflow_checks)

\* MemoryLoad with the high-water mark left where it was.
MemoryLoad_KeepsTop(ram, base, program, overflow_checks) ==
    LET b == MemoryPos(base)
        r == LoadFrom(ram, b.val, program, 1, overflow_checks)
    IN  IF b.err # "" THEN [err |-> b.err, ram |-> ram]
        ELSE [err |-> r.err, ram |-> [r.ram EXCEPT !.top = ram.top]]

\* Memory::load
MemoryLoad(ram, base, program, overflow_checks) ==
    LET b == MemoryPos(base)
    IN  IF b.err # "" THEN [err |-> b.err, ram |-> ram]
        ELSE LoadFrom(ram, b.val, program, 1, overflow_checks)

\* Memory::dump
MemoryDump(ram) ==
    IF DOMAIN ram.content = {} THEN <<>>
    ELSE [i \in 1 .. ram.top + 1 |->
            IF (i - 1) \in DOMAIN ram.content THEN ram.content[i - 1] ELSE 0]

(***************************************************************************)
(* Tracer.  output is the Option<File>: <<>> when no sink is bound, else   *)
(* <<lines>> with the lines written so far.  fails is the set of sequence  *)
(* numbers at which the sink refuses the write (the environment's choice). *)
(***************************************************************************)
\* Tracer::new
TracerNew == [event_seqno |-> 0, output |-> <<>>]

\* Tracer::enable
TracerEnable(t, file) == [t EXCEPT !.output = <<file>>]

\* TraceLine with next_seq handing out the same number again after a line
\* was written.
TraceLine_ReusesSeq(t, line, fails) ==
    LET seq == t.event_seqno
    IN  IF t.output = <<>> THEN [err |-> "", tracer |-> [t EXCEPT !.event_seqno = seq + 1]]
        ELSE IF seq \in fails
        THEN [err |-> "TraceError", tracer |-> [t EXCEPT !.event_seqno = seq + 1]]
        ELSE [err |-> "",
              tracer |-> [t EXCEPT !.output = <<Append(t.output[1], <<seq>> \o line)>>]]

\* TraceLine with a bound sink that never takes a line.
TraceLine_FailsWhenBound(t, line, fails) ==
    LET seq == t.event_seqno
        t1 == [t EXCEPT !.event_seqno = seq + 1]
    IN  IF t.output = <<>> THEN [err |-> "", tracer |-> t1]
        ELSE [err |-> "TraceError", tracer |-> t1]

\* Tracer::next_seq followed by the writeln! of one line, the shape shared by
\* the five trace_* methods: the sequence number is taken whether or not a
\* sink is bound, and whether or not the write succeeds.
TraceLine(t, line, fails) ==
    LET seq == t.event_seqno
        t1 == [t EXCEPT !.event_seqno = seq + 1]
    IN  IF t.output = <<>> THEN [err |-> "", tracer |-> t1]
        ELSE IF seq \in fails THEN [err |-> "TraceError", tracer |-> t1]
        ELSE [err |-> "",
              tracer |-> [t1 EXCEPT !.output = <<Append(t.output[1], <<seq>> \o line)>>]]

trace_execution(t, pc, instruction, fails) ==
    TraceLine(t, <<"execute", pc, instruction>>, fails)
trace_mem_load(t, addr, value, fails) ==
    TraceLine(t, <<"load", addr, value>>, fails)
trace_mem_store(t, addr, value, fails) ==
    TraceLine(t, <<"store", addr, value>>, fails)
trace_io_read(t, value, fails) ==
    TraceLine(t, <<"io-read", value>>, fails)
trace_io_write(t, value, fails) ==
    TraceLine(t, <<"io-write", value>>, fails)

(***************************************************************************)
(* Processor                                                               *)
(***************************************************************************)
\* Processor::new
ProcessorNew(initial_pc) ==
    [ram |-> MemoryNew, relative_base |-> 0, pc |-> initial_pc, tracer |-> TracerNew]

\* Processor::enable_tracing
enable_tracing(p, file) == [p EXCEPT !.tracer = TracerEnable(p.tracer, file)]

\* Processor::set_pc
set_pc(p, addr) == [p EXCEPT !.pc = addr]

\* update_relative_base with the sum wrapped into the Word range.
update_relative_base_Wraps(p, delta) ==
    [err |-> "", p |-> [p EXCEPT !.relative_base = Wrap(p.relative_base + delta)]]

\* Processor::update_relative_base
update_relative_base(p, delta) ==
    LET updated == I64CheckedAdd(p.relative_base, delta)
    IN  IF updated # <<>> THEN [err |-> "", p |-> [p EXCEPT !.relative_base = updated[1]]]
        ELSE [err |-> "Overflow", p |-> p]

\* The processor with its tracer as a trace_* call left it.
Traced(p, tr) == [p EXCEPT !.tracer = tr.tracer]

\* offset.checked_add(&base): the address of a Relative slot, given the
\* fetch of its offset.
RelativeLoc(offset, base) ==
    IF offset.err # "" THEN offset ELSE WordCheckedAdd(offset.val, base)

\* FetchLoc with the relative base left out of a Relative operand's address.
FetchLoc_RelativeIgnoresBase(p, mode, loc) ==
    CASE mode = "IMMEDIATE" -> [err |-> "", val |-> loc]
      [] OTHER -> MemoryFetch(p.ram, loc)

\* The match on modes[index] of Processor::get: the address to read the
\* operand from, loc being pc + index.
FetchLoc(p, mode, loc) ==
    CASE mode = "POSITIONAL" -> MemoryFetch(p.ram, loc)
      [] mode = "IMMEDIATE" -> [err |-> "", val |-> loc]
      [] OTHER -> RelativeLoc(MemoryFetch(p.ram, loc), p.relative_base)

\* GetTraced with the result of trace_mem_load dropped instead of returned.
GetTraced_IgnoresFailure(p, result, tr) ==
    [err |-> "", val |-> result, p |-> Traced(p, tr)]

\* The end of Processor::get: trace_mem_load(fetch_loc, result)? and
\* Ok(result), tr being what the trace call returned.
GetTraced(p, result, tr) ==
    [err |-> tr.err, val |-> IF tr.err = "" THEN result ELSE 0, p |-> Traced(p, tr)]

\* GetResult with the cell that was read entered into memory, as a map that
\* creates the entries it is asked for would do.
GetResult_GrowsMemory(p, fetch_loc, result, fails) ==
    IF result.err # "" THEN [err |-> result.err, val |-> 0, p |-> p]
    ELSE GetTraced([p EXCEPT !.ram = MemoryStore(p.ram, fetch_loc, result.val).ram],
                   result.val,
                   trace_mem_load(p.tracer, fetch_loc, result.val, fails))

\* Processor::get from self.ram.fetch(fetch_loc)? on, result being what the
\* fetch returned.
GetResult(p, fetch_loc, result, fails) ==
    IF result.err # "" THEN [err |-> result.err, val |-> 0, p |-> p]
    ELSE GetTraced(p, result.val,
                   trace_mem_load(p.tracer, fetch_loc, result.val, fails))

\* Processor::get once the match on the mode has returned fetch_loc.
GetAt(p, fetch_loc, fails) ==
    IF fetch_loc.err # "" THEN [err |-> fetch_loc.err, val |-> 0, p |-> p]
    ELSE GetResult(p, fetch_loc.val, MemoryFetch(p.ram, fetch_loc.val), fails)

\* Processor::get once self.pc.checked_add_usize(&index) has returned loc.
GetSlot(p, mode, loc, fails) ==
    IF loc.err # "" THEN [err |-> loc.err, val |-> 0, p |-> p]
    ELSE GetAt(p, FetchLoc(p, mode, loc.val), fails)

\* Processor::get
get(p, modes, index, fails) ==
    GetSlot(p, modes[index], WordCheckedAddUsize(p.pc, index), fails)

\* StoreLoc with an Immediate target taken as a Positional one.
StoreLoc_ImmediateAsPositional(p, mode, loc) ==
    CASE mode = "RELATIVE" -> RelativeLoc(MemoryFetch(p.ram, loc), p.relative_base)
      [] OTHER -> MemoryFetch(p.ram, loc)

\* The match on modes[index] of Processor::put: the address to store at, loc
\* being pc + index.
StoreLoc(p, mode, loc) ==
    CASE mode = "POSITIONAL" -> MemoryFetch(p.ram, loc)
      [] mode = "RELATIVE" -> RelativeLoc(MemoryFetch(p.ram, loc), p.relative_base)
      [] OTHER -> [err |-> "AddressingModeNotValidInContext", val |-> 0]

\* The end of Processor::put: what self.ram.store returned.
PutStored(p, st) == [err |-> st.err, p |-> [p EXCEPT !.ram = st.ram]]

\* PutTraced with the cells from the pc upwards kept as they are: a program
\* that cannot rewrite the instructions ahead of it.
PutTraced_ProtectsProgram(p, store_loc, value, tr) ==
    IF tr.err # "" THEN [err |-> tr.err, p |-> Traced(p, tr)]
    ELSE IF store_loc >= p.pc THEN [err |-> "", p |-> Traced(p, tr)]
    ELSE PutStored(Traced(p, tr), MemoryStore(p.ram, store_loc, value))

\* Processor::put from trace_mem_store(store_loc, value)? on, tr being what
\* the trace call returned.
PutTraced(p, store_loc, value, tr) ==
    IF tr.err # "" THEN [err |-> tr.err, p |-> Traced(p, tr)]
    ELSE PutStored(Traced(p, tr), MemoryStore(p.ram, store_loc, value))

\* Processor::put once the match on the mode has returned store_loc.
PutAt(p, store_loc, value, fails) ==
    IF store_loc.err # "" THEN [err |-> store_loc.err, p |-> p]
    ELSE PutTraced(p, store_loc.val, value,
                   trace_mem_store(p.tracer, store_loc.val, value, fails))

\* Processor::put once self.pc.checked_add_usize(&index) has returned loc.
PutSlot(p, mode, loc, value, fails) ==
    IF loc.err # "" THEN [err |-> loc.err, p |-> p]
    ELSE PutAt(p, StoreLoc(p, mode, loc.val), value, fails)

\* Processor::put
put(p, modes, index, value, fails) ==
    PutSlot(p, modes[index], WordCheckedAddUsize(p.pc, index), value, fails)

\* self.get(modes, 1)? and self.get(modes, 2)?, in that order: the operand
\* values a and b, or the first fault.  g1 and g2 are what the calls
\* returned.
BothOperands(a, g2) == [err |-> g2.err, p |-> g2.p, a |-> a, b |-> g2.val]
SecondOperand(g1, modes, fails) ==
    IF g1.err # "" THEN [err |-> g1.err, p |-> g1.p, a |-> 0, b |-> 0]
    ELSE BothOperands(g1.val, get(g1.p, modes, 2, fails))
TwoOperands(p, modes, fails) == SecondOperand(get(p, modes, 1, fails), modes, fails)

\* The function handed to execute_arithmetic_instruction, by name.
Calculate(calculate, a, b) == IF calculate = "add" THEN add(a, b) ELSE mul(a, b)

\* PutResult with the store made through slot 1, the first operand's slot.
PutResult_ThroughSlot1(p, modes, c, fails) ==
    IF c.err # "" THEN [err |-> c.err, p |-> p]
    ELSE put(p, modes, 1, c.val, fails)

\* The match of execute_arithmetic_instruction on what calculate returned.
PutResult(p, modes, c, fails) ==
    IF c.err # "" THEN [err |-> c.err, p |-> p]
    ELSE put(p, modes, 3, c.val, fails)

\* execute_arithmetic_instruction once both operands were asked for.
CalculateAndPut(ops, modes, calculate, fails) ==
    IF ops.err # "" THEN [err |-> ops.err, p |-> ops.p]
    ELSE PutResult(ops.p, modes, Calculate(calculate, ops.a, ops.b), fails)

\* Processor::execute_arithmetic_instruction
execute_arithmetic_instruction(p, modes, calculate, fails) ==
    CalculateAndPut(TwoOperands(p, modes, fails), modes, calculate, fails)

\* What do_output(w) returns when the output callback refuses (Unprintable)
\* exactly the words in rejects: "" stands for Ok(()).
DoOutput(w, rejects) == IF w \in rejects THEN "Unprintable" ELSE ""

\* The payload of a fault: the BadInstruction of InvalidInstruction (kind,
\* instruction word, address), or the InputOutputError of IOError (kind
\* NoInput or Unprintable, with the word that could not be printed).
NoDetail == [kind |-> "", word |-> 0, address |-> <<>>]

\* What one call of execute_instruction yields: the processor afterwards,
\* Ok(status) (err = "") or Err(fault) (err names the variant), whether the
\* input callback was invoked, and the words handed to the output callback.
Outcome(p, err, status, detail, asked, outputs) ==
    [p |-> p, err |-> err, status |-> status, detail |-> detail,
     asked_input |-> asked, outputs |-> outputs]

Failed(p, err) == Outcome(p, err, "", NoDetail, FALSE, <<>>)

\* (CpuStatus::Run, self.pc.checked_add(&Word(width))?) and then
\* self.pc = next_pc, next_pc being what checked_add returned.
AdvanceTo(p, next_pc, asked, outputs) ==
    IF next_pc.err # "" THEN Outcome(p, next_pc.err, "", NoDetail, asked, outputs)
    ELSE Outcome([p EXCEPT !.pc = next_pc.val], "", "Run", NoDetail, asked, outputs)

\* Advance with pc + width wrapped into the Word range instead of checked.
Advance_Wraps(p, width, asked, outputs) ==
    AdvanceTo(p, [err |-> "", val |-> Wrap(p.pc + width)], asked, outputs)

\* The tail shared by the opcodes of fixed width.
Advance(p, width, asked, outputs) ==
    AdvanceTo(p, WordCheckedAdd(p.pc, width), asked, outputs)

\* The `?` on what a get, a put or update_relative_base returned, and then
\* the tail of an arm of fixed width.
AdvanceAfter(r, width, asked) ==
    IF r.err # "" THEN Outcome(r.p, r.err, "", NoDetail, asked, <<>>)
    ELSE Advance(r.p, width, asked, <<>>)

\* A jump taken: next_pc = self.get(modes, 2)?, target being what get
\* returned.
JumpTo(target) ==
    IF target.err # "" THEN Failed(target.p, target.err)
    ELSE Outcome([target.p EXCEPT !.pc = target.val], "", "Run", NoDetail, FALSE, <<>>)

\* JumpOn with the target operand resolved before the test of val.
JumpOn_ResolvesTargetFirst(val, modes, when_nonzero, fails) ==
    IF val.err # "" THEN Failed(val.p, val.err)
    ELSE IF get(val.p, modes, 2, fails).err # ""
    THEN Failed(get(val.p, modes, 2, fails).p, get(val.p, modes, 2, fails).err)
    ELSE IF (IF when_nonzero THEN val.val # 0 ELSE val.val = 0)
    THEN JumpTo(get(val.p, modes, 2, fails))
    ELSE Advance(get(val.p, modes, 2, fails).p, 3, FALSE, <<>>)

\* A jump arm once val = self.get(modes, 1) was asked for.
JumpOn(val, modes, when_nonzero, fails) ==
    IF val.err # "" THEN Failed(val.p, val.err)
    ELSE IF (IF when_nonzero THEN val.val # 0 ELSE val.val = 0)
    THEN JumpTo(get(val.p, modes, 2, fails))
    ELSE Advance(val.p, 3, FALSE, <<>>)

\* ExecuteJump with both opcodes jumping when val != 0.
ExecuteJump_AlwaysWhenNonzero(p, modes, when_nonzero, fails) ==
    JumpOn(get(p, modes, 1, fails), modes, TRUE, fails)

\* The arm shared by Opcode::JumpTrue (when_nonzero = TRUE: jump when
\* val != 0) and Opcode::JumpFalse (jump when val == 0).
ExecuteJump(p, modes, when_nonzero, fails) ==
    JumpOn(get(p, modes, 1, fails), modes, when_nonzero, fails)

\* WordLess with both words compared as unsigned integers.
WordLess_Unsigned(a, b) == (a % (2 ^ WordBits)) < (b % (2 ^ WordBits))

\* impl PartialOrd / PartialEq for Word
WordLess(a, b) == a < b
\* A comparison that never finds two words equal.
WordEq_Never(a, b) == FALSE

WordEq(a, b) == a = b

\* A comparison arm once both operands were asked for: the put of 1 or 0.
PutComparison(ops, modes, less, fails) ==
    IF ops.err # "" THEN [err |-> ops.err, p |-> ops.p]
    ELSE put(ops.p, modes, 3,
             IF (IF less THEN WordLess(ops.a, ops.b) ELSE WordEq(ops.a, ops.b))
             THEN 1 ELSE 0,
             fails)

\* The arm shared by Opcode::CmpLess (less = TRUE) and Opcode::CmpEq.
ExecuteCompare(p, modes, less, fails) ==
    AdvanceAfter(PutComparison(TwoOperands(p, modes, fails), modes, less, fails),
                 4, FALSE)

\* Opcode::Add and Opcode::Multiply
ExecuteArithmetic(p, modes, calculate, fails) ==
    AdvanceAfter(execute_arithmetic_instruction(p, modes, calculate, fails), 4, FALSE)

\* Opcode::Read from self.tracer.trace_io_read(input)? on, tr being what the
\* trace call returned.
ReadTraced(p, modes, word, tr, fails) ==
    IF tr.err # "" THEN Outcome(Traced(p, tr), tr.err, "", NoDetail, TRUE, <<>>)
    ELSE AdvanceAfter(put(Traced(p, tr), modes, 1, word, fails), 2, TRUE)

\* ExecuteRead with the pc moved past the Read when no input is available.
ExecuteRead_SkipsWhenNoInput(p, modes, input, fails) ==
    IF input.err # ""
    THEN Outcome([p EXCEPT !.pc = p.pc + 2], "IOError", "",
                 [NoDetail EXCEPT !.kind = input.err, !.word = input.val],
                 TRUE, <<>>)
    ELSE ReadTraced(p, modes, input.val,
                    trace_io_read(p.tracer, input.val, fails), fails)

\* Opcode::Read.  input is what get_input() returns: [err, val].
ExecuteRead(p, modes, input, fails) ==
    IF input.err # ""
    THEN Outcome(p, "IOError", "",
                 [NoDetail EXCEPT !.kind = input.err, !.word = input.val],
                 TRUE, <<>>)
    ELSE ReadTraced(p, modes, input.val,
                    trace_io_read(p.tracer, input.val, fails), fails)

\* WriteOut invoking do_output a second time with the same word.
WriteOut_Twice(p, word, rejects) ==
    IF DoOutput(word, rejects) # ""
    THEN Outcome(p, "IOError", "",
                 [NoDetail EXCEPT !.kind = DoOutput(word, rejects), !.word = word],
                 FALSE, <<word>>)
    ELSE Advance(p, 2, FALSE, <<word, word>>)

\* Opcode::Write from the match on do_output(output) on, p being the
\* processor after the trace line.
WriteOut(p, word, rejects) ==
    IF DoOutput(word, rejects) # ""
    THEN Outcome(p, "IOError", "",
                 [NoDetail EXCEPT !.kind = DoOutput(word, rejects), !.word = word],
                 FALSE, <<word>>)
    ELSE Advance(p, 2, FALSE, <<word>>)

\* Opcode::Write from self.tracer.trace_io_write(output)? on.
WriteTraced(p, word, tr, rejects) ==
    IF tr.err # "" THEN Failed(Traced(p, tr), tr.err)
    ELSE WriteOut(Traced(p, tr), word, rejects)

\* Opcode::Write once output = self.get(modes, 1) was asked for.
WriteOperand(output, rejects, fails) ==
    IF output.err # "" THEN Failed(output.p, output.err)
    ELSE WriteTraced(output.p, output.val,
                     trace_io_write(output.p.tracer, output.val, fails), rejects)

\* ExecuteWrite handing the output callback the operand word itself, not the
\* value it addresses.
ExecuteWrite_PassesOperandWord(p, modes, rejects, fails) ==
    WriteOperand(get(p, [modes EXCEPT ![1] = "IMMEDIATE"], 1, fails), rejects, fails)

\* Opcode::Write
ExecuteWrite(p, modes, rejects, fails) ==
    WriteOperand(get(p, modes, 1, fails), rejects, fails)

\* Opcode::DeltaRelBase once base = self.get(modes, 1) was asked for.
UpdateBy(base) ==
    IF base.err # "" THEN Failed(base.p, base.err)
    ELSE AdvanceAfter(update_relative_base(base.p, base.val), 2, FALSE)

\* Opcode::DeltaRelBase
ExecuteDeltaRelBase(p, modes, fails) == UpdateBy(get(p, modes, 1, fails))

\* ExecuteStop with the pc moved past the Stop.
ExecuteStop_AdvancesPc(p) ==
    Outcome([p EXCEPT !.pc = p.pc + 1], "", "Halt", NoDetail, FALSE, <<>>)

\* Opcode::Stop: (CpuStatus::Halt, self.pc)
ExecuteStop(p) == Outcome(p, "", "Halt", NoDetail, FALSE, <<>>)

\* The match on decoded.op of execute_instruction.
ExecuteDecoded(p, op, modes, input, rejects, fails) ==
    CASE op = "Add" -> ExecuteArithmetic(p, modes, "add", fails)
      [] op = "Multiply" -> ExecuteArithmetic(p, modes, "mul", fails)
      [] op = "Read" -> ExecuteRead(p, modes, input, fails)
      [] op = "Write" -> ExecuteWrite(p, modes, rejects, fails)
      [] op = "JumpTrue" -> ExecuteJump(p, modes, TRUE, fails)
      [] op = "JumpFalse" -> ExecuteJump(p, modes, FALSE, fails)
      [] op = "CmpLess" -> ExecuteCompare(p, modes, TRUE, fails)
      [] op = "CmpEq" -> ExecuteCompare(p, modes, FALSE, fails)
      [] op = "DeltaRelBase" -> ExecuteDeltaRelBase(p, modes, fails)
      [] OTHER -> ExecuteStop(p)

\* execute_instruction from self.tracer.trace_execution(...)? on: tr is what
\* the trace call returned, decoded what decode returned.
ExecuteFetched(p, tr, decoded, input, rejects, fails) ==
    IF tr.err # "" THEN Failed(Traced(p, tr), tr.err)
    ELSE IF decoded.err # ""
    THEN Outcome(Traced(p, tr), decoded.err, "",
                 [kind |-> decoded.kind, word |-> decoded.instruction,
                  address |-> decoded.address], FALSE, <<>>)
    ELSE ExecuteDecoded(Traced(p, tr), decoded.op, decoded.addressing_modes,
                        input, rejects, fails)

\* execute_instruction once self.ram.fetch(self.pc) has returned instruction.
ExecuteAt(p, instruction, input, rejects, fails) ==
    IF instruction.err # "" THEN Failed(p, instruction.err)
    ELSE ExecuteFetched(p, trace_execution(p.tracer, p.pc, instruction.val, fails),
                        decode(instruction.val, p.pc), input, rejects, fails)

\* Processor::execute_instruction
execute_instruction(p, input, rejects, fails) ==
    ExecuteAt(p, MemoryFetch(p.ram, p.pc), input, rejects, fails)

\* Processor::ram
ram(p) == MemoryDump(p.ram)

\* load into a Memory made anew, the cells held before forgotten.
load_IntoNewMemory(p, base, content, overflow_checks) ==
    LET r == MemoryLoad(MemoryNew, base, content, overflow_checks)
    IN  [err |-> r.err, p |-> [p EXCEPT !.ram = r.ram]]

\* Processor::load
load(p, base, content, overflow_checks) ==
    LET r == MemoryLoad(p.ram, base, content, overflow_checks)
    IN  [err |-> r.err, p |-> [p EXCEPT !.ram = r.ram]]

(***************************************************************************)
(* The callbacks of the drivers and clients, as data: an input callback    *)
(* that iterates over a list answers with the next word and the rest of    *)
(* the list, or with NoInput once the list is used up.                     *)
(***************************************************************************)
\* NextInput with the list handed out from its far end.
NextInput_FromEnd(it) ==
    IF it # <<>> THEN [err |-> "", val |-> it[Len(it)], it |-> SubSeq(it, 1, Len(it) - 1)]
    ELSE [err |-> "NoInput", val |-> 0, it |-> it]

\* NextInput with the iterator never advanced.
NextInput_Repeats(it) ==
    IF it # <<>> THEN [err |-> "", val |-> Head(it), it |-> it]
    ELSE [err |-> "NoInput", val |-> 0, it |-> it]

\* The get_input closure of run_with_fixed_input: it.next().
NextInput(it) ==
    IF it # <<>> THEN [err |-> "", val |-> Head(it), it |-> Tail(it)]
    ELSE [err |-> "NoInput", val |-> 0, it |-> it]

\* The answer alone, as execute_instruction sees it.
Answer(a) == [err |-> a.err, val |-> a.val]

\* The words of one step that the output callback took.
Accepted(r) == IF r.err = "IOError" /\ r.outputs # <<>> THEN <<>> ELSE r.outputs

(***************************************************************************)
(* The programs and callback answers the model draws from.                 *)
(***************************************************************************)
\* An instruction word: opcode in the low two digits, then one mode digit
\* per parameter.
Instr(code, m1, m2, m3) == code + 100 * m1 + 1000 * m2 + 10000 * m3

Modes == 0 .. 2
\* Operand words for the slots an instruction reads: a negative pointer, the
\* address of the instruction itself, and both ends of the Word range.
Src == {-1, 0, WordMax, WordMin}
\* Operand words for the slot an instruction stores through: a negative
\* pointer, the instruction's own cell, an operand's cell, a cell above the
\* program, and the largest address.
Dst == {-1, 0, 1, 6, WordMax}

\* Add, Multiply, CmpLess, CmpEq: every way of reading the two operands with
\* a plain store target, and every store target with immediate operands.
ThreeOperand ==
    {<<Instr(c, m1, m2, 0), a, b, 6, 99>> :
        c \in {1, 2, 7, 8}, m1 \in Modes, m2 \in Modes, a \in Src, b \in Src}
    \cup
    {<<Instr(c, 1, 1, m3), a, b, d, 99>> :
        c \in {1, 2, 7, 8}, m3 \in Modes, a \in Src, b \in Src, d \in Dst}
\* JumpTrue, JumpFalse
TwoOperand ==
    {<<Instr(c, m1, m2, 0), a, b, 99>> :
        c \in {5, 6}, m1 \in Modes, m2 \in Modes, a \in Src, b \in Dst}
\* Read, Write, DeltaRelBase
OneOperand ==
    {<<Instr(c, m1, 0, 0), a, 99>> : c \in {3, 4, 9}, m1 \in Modes, a \in Src \cup Dst}
\* Words that do not decode, and Halt with stray mode digits.
Undecodable ==
    {<<w, 0, 0, 0>> : w \in {0, 10, 98, 100, -1, -99, 301, 3001, 30001, 31101, 1199, 399}}

\* The programs of the tests (test_cpu, test_quine) and of the spec's
\* scenarios.
TestPrograms ==
    { <<1, 0, 0, 0, 99>>,
      <<2, 3, 0, 3, 99>>,
      <<2, 4, 4, 5, 99, 0>>,
      <<1, 1, 1, 4, 99, 5, 6, 0, 99>>,
      <<3, 0, 4, 0, 99>>,
      <<109, 1, 204, -1, 1001, 100, 1, 100, 1008, 100, 16, 101, 1006, 101, 0, 99>> }

\* The first amplifier program of day07's test: it reads a phase and an
\* input and writes 10 * input + phase.
AmplifierPrograms ==
    { <<3, 15, 3, 16, 1002, 16, 10, 16, 1, 16, 15, 15, 4, 15, 99, 0, 0>> }

\* Whether some parameter of the instruction word is in Relative mode.
UsesRelative(w) ==
    \E k \in {100, 1000, 10000} : RustRem(RustDiv(w, k), 10) = 2

\* An optional first instruction that moves the relative base off zero, for
\* the bodies that address relative to it.
Prefixes(body) ==
    IF UsesRelative(body[1]) THEN {<<>>, <<109, 2>>, <<109, -3>>} ELSE {<<>>}

\* Two moves of the relative base in a row: down below zero, up again, and
\* past either end of the Word range.
RelativeBasePrograms ==
    {<<109, a, 109, b, 99>> : a \in {1, -1, WordMax, WordMin}, b \in {1, -1, WordMax, WordMin}}

\* A program that writes a Write instruction into the last cell of the
\* address space and jumps to it: an instruction whose first slot would lie
\* at pc + 1 beyond the largest Word.
TopPrograms == {<<1101, 104, 0, WordMax, 1105, 1, WordMax>>}

Programs ==
    TestPrograms \cup AmplifierPrograms \cup RelativeBasePrograms
    \cup Undecodable \cup {<<>>} \cup TopPrograms
    \cup UNION {{prefix \o body : prefix \in Prefixes(body)} :
                   body \in ThreeOperand \cup TwoOperand \cup OneOperand}

\* Programs loaded just below the top of the address space, where pc + width
\* no longer fits a Word.
HighPrograms ==
    {<<104, 5>>, <<3, 0>>, <<1105, 1>>, <<99>>, <<109, 1>>, <<1101, 1>>, <<1005, 0>>,
     <<3, WordMax - 1>>}

InitialPcs == {0, WordMax - 1}

\* (base, program) pairs a client loads into a processor constructed with
\* this pc.
LoadChoices(pc) ==
    IF pc = 0 THEN {<<0, prog>> : prog \in Programs}
    ELSE {<<pc, prog>> : prog \in HighPrograms}

\* What the input callback may answer, and which words the output callback
\* may refuse (none, or all).
InputAnswers ==
    {[err |-> "NoInput", val |-> 0]} \cup {[err |-> "", val |-> v] : v \in {42, -7}}
AllWords == WordMin .. WordMax
RejectChoices == {{}, AllWords}
\* The fixed input lists a client hands to a driver.
InputLists == {<<>>, <<42>>, <<42, -7>>}

(***************************************************************************)
(* State                                                                   *)
(***************************************************************************)
VARIABLES
    cpu,     \* the Processor
    output,  \* the words the client's output callback has accepted so far
    pre,     \* the Processor as it was before the last call
    last,    \* the last call on the Processor and what it returned
    retries, \* the calls made in a row since one last returned Run
    twin,        \* a second Processor, constructed and loaded like the first
    twin_output, \* the words the twin's output callback has accepted so far
    twin_last,   \* the last call on the twin and what it returned
    feed,        \* the input list of a run, what each input callback
                 \* iterating over it has yet to hand out, and how many Read
                 \* instructions run_with_fixed_input has executed
    loaded,      \* the <<base, program>> the client loaded, <<>> before that
    word,        \* the instruction word handed to the decoder, <<>> before that
    decoded,     \* what the decoder returned for it, <<>> before that
    mem,         \* a Memory of its own, used through its public methods
    written,     \* the writes made to mem so far, in order: <<address, value>>
    probe,       \* the last call on mem, its arguments and what it returned
    chain,       \* a call of day07's run_amplifier_chain: its arguments, the
                 \* amplifier it has come to and what it returned
    ring         \* a call of day07's run_amplifier_loop: its arguments, its
                 \* amplifiers and wires and what it returned

cpu_vars == <<cpu, output, pre, last, retries, twin, twin_output, twin_last, feed, loaded>>
twin_vars == <<twin, twin_output, twin_last, feed>>
decoder_vars == <<word, decoded>>
memory_vars == <<mem, written, probe>>
harness_vars == <<chain, ring>>
vars == <<cpu_vars, decoder_vars, memory_vars, harness_vars>>

\* The record of a call on mem: its arguments, the fault it returned ("" for
\* Ok, "panic" when it did not return) and its result.
Probe(op, args, err, result) == [op |-> op, args |-> args, err |-> err, result |-> result]

\* No word has been handed to the decoder.
DecoderIdle == word = <<>> /\ decoded = <<>>
\* The Memory is as Memory::new returned it.
MemoryIdle ==
    /\ mem = MemoryNew
    /\ written = <<>>
    /\ probe = Probe("new", <<>>, "", <<>>)
\* Neither function of day07 has been called.
HarnessIdle == chain = <<>> /\ ring = <<>>

NoAnswer == [err |-> "NoInput", val |-> 0]

\* The record of a call: what it returned, what the callbacks answered if
\* they were invoked, and (after) what the call before it was and returned.
Call(op, r, input, rejects, before) ==
    [op |-> op, err |-> r.err, status |-> r.status, detail |-> r.detail,
     asked_input |-> r.asked_input, outputs |-> r.outputs,
     input |-> IF r.asked_input THEN input ELSE NoAnswer,
     rejected |-> r.outputs # <<>> /\ DoOutput(r.outputs[1], rejects) # "",
     after |-> before]

Before(call) ==
    [op |-> call.op, err |-> call.err, status |-> call.status,
     kind |-> call.detail.kind]
NoCall == [op |-> "", err |-> "", status |-> "", kind |-> ""]

Init ==
    /\ \E initial_pc \in InitialPcs : cpu = ProcessorNew(initial_pc)
    /\ output = <<>>
    /\ pre = cpu
    /\ last = Call("new", Failed(cpu, ""), NoAnswer, {}, NoCall)
    /\ retries = 0
    /\ twin = cpu
    /\ twin_output = <<>>
    /\ twin_last = last
    /\ feed = [inputs |-> <<>>, fixed_it |-> <<>>, client_it |-> <<>>, reads |-> 0]
    /\ loaded = <<>>
    /\ DecoderIdle /\ MemoryIdle /\ HarnessIdle

\* The client loads a program into the newly constructed processor.
Load ==
    /\ last.op = "new"
    /\ \E choice \in LoadChoices(cpu.pc) :
         LET r == load(cpu, choice[1], choice[2], TRUE)
         IN  /\ cpu' = r.p
             /\ last' = Call("load", Failed(r.p, r.err), NoAnswer, {}, Before(last))
             /\ loaded' = choice
    /\ pre' = cpu
    /\ UNCHANGED <<output, retries, twin_vars, decoder_vars, memory_vars, harness_vars>>

\* The opcode execute_instruction decodes from what the fetch at pc
\* returned, "" if the fetch or the decoding fails.
FetchedOp(instruction, pc) ==
    IF instruction.err # "" THEN "" ELSE decode(instruction.val, pc).op
OpcodeAt(p) == FetchedOp(MemoryFetch(p.ram, p.pc), p.pc)

\* A callback answers only when it is invoked: the answers to draw from for
\* the next step of p, a Read being the one instruction that asks for input
\* and a Write the one that hands out a word.
AnswersAsked(p) == IF OpcodeAt(p) = "Read" THEN InputAnswers ELSE {NoAnswer}
RejectsAsked(p) == IF OpcodeAt(p) = "Write" THEN RejectChoices ELSE {{}}

\* The client calls execute_instruction once, with callbacks that answer
\* as chosen.
Step ==
    /\ cpu.tracer.event_seqno < MaxSeq
    /\ retries <= MaxRetries
    /\ \E input \in AnswersAsked(cpu), rejects \in RejectsAsked(cpu) :
         LET r == execute_instruction(cpu, input, rejects, {})
         IN  /\ cpu' = r.p
             /\ output' = output \o Accepted(r)
             /\ last' = Call("step", r, input, rejects, Before(last))
             /\ retries' = IF r.err = "" /\ r.status = "Run" THEN 0 ELSE retries + 1
    /\ pre' = cpu
    /\ UNCHANGED <<twin_vars, loaded, decoder_vars, memory_vars, harness_vars>>

Next == Load \/ Step

Spec == Init /\ [][Next]_vars

(***************************************************************************)
(* SpecDrivers: the same program and input list run twice, on cpu by       *)
(* run_with_fixed_input and on twin by a client's own loop of              *)
(* execute_instruction calls whose input callback hands out the list in    *)
(* order (the closure of check_program).  Each turn of either loop is one  *)
(* action; a loop has returned once its last turn did not return Run.      *)
(***************************************************************************)
\* The get_input closure of check_program: it.next().
ClientInput(it) ==
    IF Len(it) > 0 THEN [err |-> "", val |-> it[1], it |-> SubSeq(it, 2, Len(it))]
    ELSE [err |-> "NoInput", val |-> 0, it |-> it]

DriversInit ==
    /\ cpu = ProcessorNew(0)
    /\ output = <<>>
    /\ pre = cpu
    /\ last = Call("new", Failed(cpu, ""), NoAnswer, {}, NoCall)
    /\ retries = 0
    /\ twin = cpu
    /\ twin_output = <<>>
    /\ twin_last = last
    /\ \E inputs \in InputLists :
         feed = [inputs |-> inputs, fixed_it |-> inputs, client_it |-> inputs,
                 reads |-> 0]
    /\ loaded = <<>>
    /\ DecoderIdle /\ MemoryIdle /\ HarnessIdle

\* Both processors are loaded with the same program at base 0.
LoadBothOf(programs) ==
    /\ last.op = "new"
    /\ \E program \in programs :
         LET r == load(cpu, 0, program, TRUE)
         IN  /\ cpu' = r.p
             /\ twin' = r.p
             /\ last' = Call("load", Failed(r.p, r.err), NoAnswer, {}, Before(last))
             /\ loaded' = <<0, program>>
    /\ twin_last' = last'
    /\ pre' = cpu
    /\ UNCHANGED <<output, retries, twin_output, feed, decoder_vars, memory_vars, harness_vars>>

LoadBoth == LoadBothOf(Programs)

Returned(call, op) == call.op = op /\ ~ (call.err = "" /\ call.status = "Run")
Running(call, op) == call.op = "load" \/ (call.op = op /\ call.err = "" /\ call.status = "Run")

\* One turn of the loop of cpu.run_with_fixed_input(inputs, out): Run goes
\* round again, Halt returns Ok(()), a fault returns it.
FixedInputTurn ==
    /\ Running(last, "run_with_fixed_input")
    /\ cpu.tracer.event_seqno < MaxSeq
    /\ LET a == NextInput(feed.fixed_it)
           r == execute_instruction(cpu, Answer(a), {}, {})
       IN  /\ cpu' = r.p
           /\ output' = output \o Accepted(r)
           /\ last' = Call("run_with_fixed_input", r, Answer(a), {}, Before(last))
           /\ feed' = [feed EXCEPT !.fixed_it = IF r.asked_input THEN a.it ELSE @,
                                    !.reads = IF OpcodeAt(cpu) = "Read" THEN @ + 1 ELSE @]
    /\ pre' = cpu
    /\ UNCHANGED <<retries, twin, twin_output, twin_last, loaded,
                   decoder_vars, memory_vars, harness_vars>>

\* One turn of the client's loop on the twin, begun once
\* run_with_fixed_input has returned; the loop ends at Halt or at a fault.
ManualTurn ==
    /\ Returned(last, "run_with_fixed_input")
    /\ Running(twin_last, "step")
    /\ twin.tracer.event_seqno < MaxSeq
    /\ LET a == ClientInput(feed.client_it)
           r == execute_instruction(twin, Answer(a), {}, {})
       IN  /\ twin' = r.p
           /\ twin_output' = twin_output \o Accepted(r)
           /\ twin_last' = Call("step", r, Answer(a), {}, Before(twin_last))
           /\ feed' = [feed EXCEPT !.client_it = IF r.asked_input THEN a.it ELSE @]
    /\ UNCHANGED <<cpu, output, pre, last, retries, loaded,
                   decoder_vars, memory_vars, harness_vars>>

DriversNext == LoadBoth \/ FixedInputTurn \/ ManualTurn

SpecDrivers == DriversInit /\ [][DriversNext]_vars

(***************************************************************************)
(* SpecTrace: two processors constructed alike, cpu with a trace sink      *)
(* bound (an empty file whose writes all succeed) and twin with none, are  *)
(* loaded alike and stepped together with callbacks that answer alike.     *)
(* The log keeps every call of a run, so here retries counts the calls of   *)
(* the whole run that did not return Run.                                  *)
(***************************************************************************)
TraceInit ==
    /\ \E initial_pc \in InitialPcs :
         /\ cpu = enable_tracing(ProcessorNew(initial_pc), <<>>)
         /\ twin = ProcessorNew(initial_pc)
    /\ output = <<>>
    /\ pre = cpu
    /\ last = Call("new", Failed(cpu, ""), NoAnswer, {}, NoCall)
    /\ retries = 0
    /\ twin_output = <<>>
    /\ twin_last = last
    /\ feed = [inputs |-> <<>>, fixed_it |-> <<>>, client_it |-> <<>>, reads |-> 0]
    /\ loaded = <<>>
    /\ DecoderIdle /\ MemoryIdle /\ HarnessIdle

TraceLoad ==
    /\ last.op = "new"
    /\ \E choice \in LoadChoices(cpu.pc) :
         LET r == load(cpu, choice[1], choice[2], TRUE)
             t == load(twin, choice[1], choice[2], TRUE)
         IN  /\ cpu' = r.p
             /\ twin' = t.p
             /\ last' = Call("load", Failed(r.p, r.err), NoAnswer, {}, Before(last))
             /\ twin_last' = Call("load", Failed(t.p, t.err), NoAnswer, {},
                                  Before(twin_last))
             /\ loaded' = choice
    /\ pre' = cpu
    /\ UNCHANGED <<output, retries, twin_output, feed, decoder_vars, memory_vars, harness_vars>>

TraceStep ==
    /\ cpu.tracer.event_seqno < MaxSeq
    /\ retries <= MaxRetries
    /\ \E input \in AnswersAsked(cpu) \cup AnswersAsked(twin),
          rejects \in RejectsAsked(cpu) \cup RejectsAsked(twin) :
         LET r == execute_instruction(cpu, input, rejects, {})
             t == execute_instruction(twin, input, rejects, {})
         IN  /\ cpu' = r.p
             /\ output' = output \o Accepted(r)
             /\ last' = Call("step", r, input, rejects, Before(last))
             /\ retries' = IF r.err = "" /\ r.status = "Run" THEN retries ELSE retries + 1
             /\ twin' = t.p
             /\ twin_output' = twin_output \o Accepted(t)
             /\ twin_last' = Call("step", t, input, rejects, Before(twin_last))
    /\ pre' = cpu
    /\ UNCHANGED <<feed, loaded, decoder_vars, memory_vars, harness_vars>>

TraceNext == TraceLoad \/ TraceStep

SpecTrace == TraceInit /\ [][TraceNext]_vars

(***************************************************************************)
(* SpecInterleave: two processors loaded alike, each stepped by its own    *)
(* client loop with its own input iterator over the same list, the turns   *)
(* of the two loops interleaved in any order (run_amplifier_loop of day 7  *)
(* advances its amplifiers in turn from one thread).                       *)
(***************************************************************************)
\* A Processor owns its ram, pc, relative_base and tracer by value: what a
\* step of another instance, which ended as `stepped`, leaves of it.
Untouched_SharedRam(other, stepped) == [other EXCEPT !.ram = stepped.ram]

Untouched(other, stepped) == other

\* One turn of the loop that drives cpu.
CpuTurn ==
    /\ Running(last, "step")
    /\ cpu.tracer.event_seqno < MaxSeq
    /\ LET a == ClientInput(feed.fixed_it)
           r == execute_instruction(cpu, Answer(a), {}, {})
       IN  /\ cpu' = r.p
           /\ twin' = Untouched(twin, r.p)
           /\ output' = output \o Accepted(r)
           /\ last' = Call("step", r, Answer(a), {}, Before(last))
           /\ feed' = [feed EXCEPT !.fixed_it = IF r.asked_input THEN a.it ELSE @]
    /\ pre' = cpu
    /\ UNCHANGED <<retries, twin_output, twin_last, loaded,
                   decoder_vars, memory_vars, harness_vars>>

\* One turn of the loop that drives twin.
TwinTurn ==
    /\ Running(twin_last, "step")
    /\ twin.tracer.event_seqno < MaxSeq
    /\ LET a == ClientInput(feed.client_it)
           r == execute_instruction(twin, Answer(a), {}, {})
       IN  /\ twin' = r.p
           /\ cpu' = Untouched(cpu, r.p)
           /\ twin_output' = twin_output \o Accepted(r)
           /\ twin_last' = Call("step", r, Answer(a), {}, Before(twin_last))
           /\ feed' = [feed EXCEPT !.client_it = IF r.asked_input THEN a.it ELSE @]
    /\ UNCHANGED <<output, pre, last, retries, loaded,
                   decoder_vars, memory_vars, harness_vars>>

\* The programs run interleaved: those of the tests, the amplifier program
\* of day 7, the moves of the relative base, and a jump below address 0.
InterleavePrograms ==
    TestPrograms \cup AmplifierPrograms \cup RelativeBasePrograms
    \cup {<<1105, 1, -1>>}

LoadAlike == LoadBothOf(InterleavePrograms)

InterleaveNext == LoadAlike \/ CpuTurn \/ TwinTurn

SpecInterleave == DriversInit /\ [][InterleaveNext]_vars

(***************************************************************************)
(* SpecSink: a processor with a trace sink that may refuse any line, run   *)
(* by run_with_fixed_input or by run_with_io with the closure of           *)
(* check_program, one turn of the loop per action.                         *)
(***************************************************************************)
\* A step writes at most four lines (execute, two loads, a store).
MaxLines == 4

\* What the sink does with the lines of the next step of p: it takes them
\* all, or refuses the k-th.
SinkRefusals(p) ==
    {{}} \cup {{p.tracer.event_seqno + k} : k \in 0 .. MaxLines - 1}

SinkInit ==
    /\ cpu = enable_tracing(ProcessorNew(0), <<>>)
    /\ output = <<>>
    /\ pre = cpu
    /\ last = Call("new", Failed(cpu, ""), NoAnswer, {}, NoCall)
    /\ retries = 0
    /\ twin = cpu
    /\ twin_output = <<>>
    /\ twin_last = last
    /\ \E inputs \in InputLists :
         feed = [inputs |-> inputs, fixed_it |-> inputs, client_it |-> inputs,
                 reads |-> 0]
    /\ loaded = <<>>
    /\ DecoderIdle /\ MemoryIdle /\ HarnessIdle

\* One turn of the loop of run_with_fixed_input.
SinkFixedInputTurn ==
    /\ Running(last, "run_with_fixed_input")
    /\ cpu.tracer.event_seqno < MaxSeq
    /\ \E fails \in SinkRefusals(cpu) :
         LET a == NextInput(feed.fixed_it)
             r == execute_instruction(cpu, Answer(a), {}, fails)
         IN  /\ cpu' = r.p
             /\ output' = output \o Accepted(r)
             /\ last' = Call("run_with_fixed_input", r, Answer(a), {}, Before(last))
             /\ feed' = [feed EXCEPT !.fixed_it = IF r.asked_input THEN a.it ELSE @]
    /\ pre' = cpu
    /\ UNCHANGED <<retries, twin, twin_output, twin_last, loaded,
                   decoder_vars, memory_vars, harness_vars>>

\* One turn of the loop of run_with_io: while execute_instruction(...)? is
\* Run, go round again.
SinkIoTurn ==
    /\ Running(last, "run_with_io")
    /\ cpu.tracer.event_seqno < MaxSeq
    /\ \E fails \in SinkRefusals(cpu) :
         LET a == ClientInput(feed.fixed_it)
             r == execute_instruction(cpu, Answer(a), {}, fails)
         IN  /\ cpu' = r.p
             /\ output' = output \o Accepted(r)
             /\ last' = Call("run_with_io", r, Answer(a), {}, Before(last))
             /\ feed' = [feed EXCEPT !.fixed_it = IF r.asked_input THEN a.it ELSE @]
    /\ pre' = cpu
    /\ UNCHANGED <<retries, twin, twin_output, twin_last, loaded,
                   decoder_vars, memory_vars, harness_vars>>

SinkNext == LoadAlike \/ SinkFixedInputTurn \/ SinkIoTurn

SpecSink == SinkInit /\ [][SinkNext]_vars

(***************************************************************************)
(* SpecReload: a processor that is loaded, may execute an instruction, and *)
(* is then loaded again, at the same or another base, before it runs on    *)
(* (part 2 of day 13 loads the game and then loads [2] over its first      *)
(* cell).                                                                  *)
(***************************************************************************)
ReloadBases == {0, 2, 20, WordMax, -1}
ReloadWords == {<<>>, <<2>>, <<7, 8>>}

ReloadInit ==
    /\ cpu = ProcessorNew(0)
    /\ output = <<>>
    /\ pre = cpu
    /\ last = Call("new", Failed(cpu, ""), NoAnswer, {}, NoCall)
    /\ retries = 0
    /\ twin = cpu
    /\ twin_output = <<>>
    /\ twin_last = last
    /\ feed = [inputs |-> <<>>, fixed_it |-> <<>>, client_it |-> <<>>, reads |-> 0]
    /\ loaded = <<>>
    /\ DecoderIdle /\ MemoryIdle /\ HarnessIdle

\* The second load, made right after the first or after one instruction;
\* loaded becomes its arguments.  A build with overflow checks panics where
\* one without them wraps base + offset.
Reload ==
    /\ last.op = "load" \/ (last.op = "step" /\ last.after.op = "load")
    /\ \E base \in ReloadBases, content \in ReloadWords, overflow_checks \in BOOLEAN :
         LET r == load(cpu, base, content, overflow_checks)
         IN  /\ cpu' = r.p
             /\ last' = Call("reload", Failed(r.p, r.err), NoAnswer, {}, Before(last))
             /\ loaded' = <<base, content>>
    /\ pre' = cpu
    /\ UNCHANGED <<output, retries, twin_vars, decoder_vars, memory_vars, harness_vars>>

\* The client goes on executing unless the load panicked.
ReloadStep == last.err # "panic" /\ Step

ReloadNext == LoadAlike \/ Reload \/ ReloadStep

SpecReload == ReloadInit /\ [][ReloadNext]_vars

\* A Processor that is constructed and never used.
CpuIdle ==
    /\ cpu = ProcessorNew(0)
    /\ output = <<>>
    /\ pre = cpu
    /\ last = Call("new", Failed(cpu, ""), NoAnswer, {}, NoCall)
    /\ retries = 0
    /\ twin = cpu
    /\ twin_output = <<>>
    /\ twin_last = last
    /\ feed = [inputs |-> <<>>, fixed_it |-> <<>>, client_it |-> <<>>, reads |-> 0]
    /\ loaded = <<>>

(***************************************************************************)
(* SpecDecode: the decoder on its own.  A word is chosen, either any word  *)
(* or the encoding of an opcode and three mode digits, and fn decode is    *)
(* applied to it and to the address it was fetched from.                   *)
(***************************************************************************)
\* The ten opcode numbers of enum Opcode.
OpcodeCodes == {1, 2, 3, 4, 5, 6, 7, 8, 9, 99}
\* Every non-negative Word, and negative ones of each kind.
DecoderWords ==
    (0 .. WordMax) \cup ((0 - 1199) .. (0 - 1))
    \cup {-1, -2, -99, -100, -101, -10001, WordMin}
\* The addresses handed to decode along with the word.
DecoderPcs == {0, 7}

DecodeInit == CpuIdle /\ MemoryIdle /\ DecoderIdle /\ HarnessIdle

\* Any word is handed to the decoder.
ChooseWord ==
    /\ word = <<>>
    /\ \E instruction \in DecoderWords, pc \in DecoderPcs :
         word' = <<[instruction |-> instruction, pc |-> pc, parts |-> <<>>]>>
    /\ UNCHANGED <<decoded, cpu_vars, memory_vars, harness_vars>>

\* The word encoding an opcode number and three mode digits is handed to the
\* decoder.
EncodeWord ==
    /\ word = <<>>
    /\ \E code \in OpcodeCodes, m1 \in Modes, m2 \in Modes, m3 \in Modes,
          pc \in DecoderPcs :
         word' = <<[instruction |-> Instr(code, m1, m2, m3), pc |-> pc,
                    parts |-> <<code, m1, m2, m3>>]>>
    /\ UNCHANGED <<decoded, cpu_vars, memory_vars, harness_vars>>

\* decode(instruction, pc)
Decode ==
    /\ word # <<>> /\ decoded = <<>>
    /\ decoded' = <<decode(word[1].instruction, word[1].pc)>>
    /\ UNCHANGED <<word, cpu_vars, memory_vars, harness_vars>>

DecodeNext == ChooseWord \/ EncodeWord \/ Decode

SpecDecode == DecodeInit /\ [][DecodeNext]_vars

(***************************************************************************)
(* SpecMemory: a Memory used through its public methods load, store and    *)
(* fetch, in any order and up to both ends of the address space.  written  *)
(* logs every insert the calls make; a call that panics ends the run.      *)
(* SpecDump: the same with dump as well, at addresses near zero, a dump    *)
(* being as long as the highest address written.                           *)
(***************************************************************************)
\* How many writes the log may hold before load and store are no longer
\* called.
MaxWrites == 2

LoadBases == {0, WordMax, -1}
\* The bases of the loads that are dumped.
DumpBases == {0, 2}
LoadPrograms == {<<>>, <<7>>, <<5, 0>>}
StoreAddrs == {0, 3, -1}
StoreValues == {0, 9}
FetchAddrs == {0, 3, 4, WordMax, -1}

Min(a, b) == IF a <= b THEN a ELSE b

\* The inserts a call of Memory::load makes, in order: none when base is
\* refused, else one per word at base.0 + offset.0 as the build computes
\* it, up to the word at which a build with overflow checks panics.
LoadWrites(base, program, overflow_checks) ==
    LET n == IF base < 0 THEN 0
             ELSE IF overflow_checks THEN Min(Len(program), WordMax - base + 1)
             ELSE Len(program)
    IN  [k \in 1 .. n |-> <<Wrap(base + k - 1), program[k]>>]

MemoryInit == CpuIdle /\ DecoderIdle /\ MemoryIdle /\ HarnessIdle

\* mem.load(base, program) with a base among bases, by a build with or
\* without overflow checks.
LoadAt(bases) ==
    /\ probe.err # "panic"
    /\ \E base \in bases, program \in LoadPrograms, overflow_checks \in BOOLEAN :
         /\ Len(written) + Len(program) <= MaxWrites
         /\ LET r == MemoryLoad(mem, base, program, overflow_checks)
            IN  /\ mem' = r.ram
                /\ probe' = Probe("load", <<base, program>>, r.err, <<>>)
         /\ written' = written \o LoadWrites(base, program, overflow_checks)
    /\ UNCHANGED <<cpu_vars, decoder_vars, harness_vars>>

MemLoad == LoadAt(LoadBases)
DumpLoad == LoadAt(DumpBases)

\* mem.store(addr, value)
MemStore ==
    /\ probe.err # "panic"
    /\ Len(written) < MaxWrites
    /\ \E addr \in StoreAddrs, value \in StoreValues :
         LET r == MemoryStore(mem, addr, value)
         IN  /\ mem' = r.ram
             /\ probe' = Probe("store", <<addr, value>>, r.err, <<>>)
             /\ written' = IF r.err = "" THEN Append(written, <<addr, value>>)
                            ELSE written
    /\ UNCHANGED <<cpu_vars, decoder_vars, harness_vars>>

\* mem.fetch(addr)
MemFetch ==
    /\ probe.err # "panic"
    /\ \E addr \in FetchAddrs :
         LET r == MemoryFetch(mem, addr)
         IN  probe' = Probe("fetch", <<addr>>, r.err, <<r.val>>)
    /\ UNCHANGED <<mem, written, cpu_vars, decoder_vars, harness_vars>>

\* mem.dump(&mut dest)
MemDump ==
    /\ probe.err # "panic"
    /\ probe' = Probe("dump", <<>>, "", <<MemoryDump(mem)>>)
    /\ UNCHANGED <<mem, written, cpu_vars, decoder_vars, harness_vars>>

MemoryNext == MemLoad \/ MemStore \/ MemFetch

SpecMemory == MemoryInit /\ [][MemoryNext]_vars

DumpNext == DumpLoad \/ MemStore \/ MemFetch \/ MemDump

SpecDump == MemoryInit /\ [][DumpNext]_vars

(***************************************************************************)
(* SpecStandalone: the Memory of the standalone interpreter                *)
(* (src/cpu/lib.rs) under the same calls.  Its new, pos, fetch, store and  *)
(* dump are those of src/lib/cpu/mod.rs word for word; its load empties    *)
(* the map before it looks at base.                                        *)
(***************************************************************************)
StandaloneBases == {0, 2, -1}

\* Memory::load of src/cpu/lib.rs: self.content.clear() comes first, then
\* the check of base and the loop of inserts.  top is not reset.
StandaloneMemoryLoad(memory, base, program, overflow_checks) ==
    LET cleared == [content |-> <<>>, top |-> memory.top]
        b == MemoryPos(base)
    IN  IF b.err # "" THEN [err |-> b.err, ram |-> cleared]
        ELSE LoadFrom(cleared, b.val, program, 1, overflow_checks)

\* mem.load(base, program) on the standalone Memory.
StandaloneLoad ==
    /\ probe.err # "panic"
    /\ \E base \in StandaloneBases, program \in LoadPrograms, overflow_checks \in BOOLEAN :
         /\ Len(written) + Len(program) <= MaxWrites
         /\ LET r == StandaloneMemoryLoad(mem, base, program, overflow_checks)
            IN  /\ mem' = r.ram
                /\ probe' = Probe("load", <<base, program>>, r.err, <<>>)
         /\ written' = written \o LoadWrites(base, program, overflow_checks)
    /\ UNCHANGED <<cpu_vars, decoder_vars, harness_vars>>

StandaloneNext == StandaloneLoad \/ MemStore \/ MemFetch \/ MemDump

SpecStandalone == MemoryInit /\ [][StandaloneNext]_vars

(***************************************************************************)
(* SpecChain: day07's run_amplifier_chain(program, phases, input).  The    *)
(* recursion on the tail of phases is a loop over chain.rest; cpu is the   *)
(* Processor of the run_amplifier in progress, output its output_words and *)
(* feed its input vector.  Each turn of run_with_fixed_input is one        *)
(* action; chain.runs logs what each amplifier was given and what came of  *)
(* it.                                                                     *)
(***************************************************************************)
\* An amplifier that writes the word at address phase + input: it faults on
\* a negative sum.
IndexingAmplifier == <<3, 11, 3, 12, 1, 11, 12, 9, 4, 0, 99, 0, 0>>

\* The amplifier of the test, one that indexes, and amplifiers that write
\* no word, two words, or ask for a third input.
ChainPrograms ==
    AmplifierPrograms \cup
    {IndexingAmplifier, <<99>>, <<104, 1, 104, 2, 99>>, <<3, 0, 3, 0, 3, 0, 4, 0, 99>>,
     <<3, 0, 4, 0, 99>>}
ChainPhases ==
    {<<>>, <<0>>, <<1, 0>>, <<3, 2, 1, 0>>, <<4, 3, 2, 1, 0>>, <<-5, 0>>, <<0, -5, 1>>}
ChainFirstInputs == {0, 3}

\* let input = vec![phase, input];
ChainInputs_InputFirst(phase, input) == <<input, phase>>
ChainInputs(phase, input) == <<phase, input>>

\* What the function returned: Ok(val), Err(err), or "panic" when an
\* assertion failed.
ChainOk(val) == <<[err |-> "", val |-> val]>>
ChainErr(err) == <<[err |-> err, val |-> 0]>>

ChainInit ==
    /\ CpuIdle /\ DecoderIdle /\ MemoryIdle
    /\ ring = <<>>
    /\ \E program \in ChainPrograms, phases \in ChainPhases, input \in ChainFirstInputs :
         chain = [program |-> program, phases |-> phases, input |-> input,
                  rest |-> phases, x |-> input, stage |-> "call",
                  runs |-> <<>>, result |-> <<>>]

\* run_amplifier_chain is entered with chain.rest as its phases and chain.x
\* as its input: the assertion, then run_amplifier up to the call of
\* run_with_fixed_input.
ChainAmplifier ==
    /\ chain.result = <<>>
    /\ chain.stage = "call"
    /\ IF chain.rest = <<>>
       THEN /\ chain' = [chain EXCEPT !.result = ChainErr("panic"), !.stage = "returned"]
            /\ UNCHANGED <<cpu, output, pre, last, feed, loaded>>
       ELSE LET inputs == ChainInputs(Head(chain.rest), chain.x)
                r == load(ProcessorNew(0), 0, chain.program, TRUE)
            IN  /\ cpu' = r.p
                /\ pre' = ProcessorNew(0)
                /\ output' = <<>>
                /\ last' = Call("load", Failed(r.p, r.err), NoAnswer, {}, NoCall)
                /\ loaded' = <<0, chain.program>>
                /\ feed' = [inputs |-> inputs, fixed_it |-> inputs,
                            client_it |-> inputs, reads |-> 0]
                /\ chain' = IF r.err # ""
                            THEN [chain EXCEPT !.result = ChainErr(r.err),
                                               !.stage = "returned"]
                            ELSE [chain EXCEPT !.stage = "run"]
    /\ UNCHANGED <<retries, twin, twin_output, twin_last, ring,
                   decoder_vars, memory_vars>>

\* One turn of the loop of cpu.run_with_fixed_input(&input, &mut output).
ChainTurn ==
    /\ chain.stage = "run"
    /\ FixedInputTurn

\* run_with_fixed_input has returned: its fault is returned by ?, else the
\* assertion on output_words, else Ok(output_words[0]) is the result of the
\* last amplifier and the input of the call on the tail of phases.
ChainReturn ==
    /\ chain.stage = "run"
    /\ Returned(last, "run_with_fixed_input")
    /\ LET run == [inputs |-> feed.inputs, outputs |-> output, err |-> last.err]
           logged == [chain EXCEPT !.runs = Append(@, run)]
       IN  chain' =
             IF last.err # ""
             THEN [logged EXCEPT !.result = ChainErr(last.err), !.stage = "returned"]
             ELSE IF Len(output) # 1
             THEN [logged EXCEPT !.result = ChainErr("panic"), !.stage = "returned"]
             ELSE IF Len(chain.rest) = 1
             THEN [logged EXCEPT !.result = ChainOk(output[1]), !.stage = "returned"]
             ELSE [logged EXCEPT !.rest = Tail(@), !.x = output[1], !.stage = "call"]
    /\ UNCHANGED <<cpu_vars, ring, decoder_vars, memory_vars>>

ChainNext == ChainAmplifier \/ ChainTurn \/ ChainReturn

SpecChain == ChainInit /\ [][ChainNext]_vars

(***************************************************************************)
(* SpecRing: day07's run_amplifier_loop(program, phases, first_input).     *)
(* ring holds its locals: the amplifiers, the wires, the phases not yet    *)
(* handed out, the count of halted amplifiers and the index the for loop   *)
(* has come to, and, while a run_until_output call is in progress, the     *)
(* locals of that call.  One action is one amplifier the for loop comes    *)
(* to, or one turn of the loop of run_until_output.  ring.fed and          *)
(* ring.emitted log, per amplifier, the words passed to run_until_output   *)
(* and the words its processor handed to the output callback.              *)
(***************************************************************************)
\* The first program of test_solve2: five times over, it reads a word x and
\* writes 2 * x + phase - 4.
DoublingAmplifier ==
    <<3, 26, 1001, 26, -4, 26, 3, 27, 1002, 27, 2, 27, 1, 27, 26, 27, 4, 27, 1001, 28, -1,
      28, 1005, 28, 6, 99, 0, 0, 5>>

\* The program of the test; amplifiers that pass one word on, that read
\* three words and write none, that write two words on one input, that
\* write their phase before they read, that read twice and halt, that read
\* once and halt, and that fault.
RingPrograms ==
    {DoublingAmplifier,
     <<3, 0, 3, 1, 4, 1, 99>>,
     <<3, 0, 3, 0, 3, 0, 99>>,
     <<3, 0, 3, 1, 4, 1, 4, 0, 99>>,
     <<3, 0, 4, 0, 3, 1, 4, 1, 99>>,
     <<3, 0, 3, 0, 99>>,
     <<3, 0, 99>>,
     <<3, 0, 3, 1, 4, -1, 99>>}
RingPhases == {<<9>>, <<9, 8>>, <<5, 6>>, <<7, 6, 5>>}
RingFirstInputs == {0, 1}

RingOk(val) == <<[err |-> "", val |-> val]>>
RingErr(err) == <<[err |-> err, val |-> 0]>>

\* Amplifier::new
AmplifierNew(program) ==
    LET r == load(ProcessorNew(0), 0, program, TRUE)
    IN  [err |-> r.err, amp |-> [cpu |-> r.p, running |-> TRUE]]

\* do_input of run_until_output: the_input.take().
TakeInput(the_input) ==
    IF the_input # <<>> THEN [err |-> "", val |-> the_input[1]] ELSE NoAnswer

\* do_output of run_until_output: the_output = Some(w), for each word the
\* step handed out.
KeepOutput(the_output, words) ==
    IF words # <<>> THEN <<words[Len(words)]>> ELSE the_output

\* The locals of run_amplifier_loop when it enters its loop.  wires starts
\* as a copy of the phases with first_input in place of the first.
RingLocals(program, phases, first_input) ==
    [program |-> program, phases |-> phases, first_input |-> first_input,
     amps |-> [k \in 1 .. Len(phases) |-> AmplifierNew(program).amp],
     wires |-> [k \in 1 .. Len(phases) |->
                  IF k = 1 THEN <<first_input>> ELSE <<phases[k]>>],
     maybe_phases |-> [k \in 1 .. Len(phases) |-> <<phases[k]>>],
     total_halted |-> 0,
     i |-> 1,
     call |-> <<>>,
     fed |-> [k \in 1 .. Len(phases) |-> <<>>],
     emitted |-> [k \in 1 .. Len(phases) |-> <<>>],
     result |-> <<>>]

RingInit ==
    /\ CpuIdle /\ DecoderIdle /\ MemoryIdle
    /\ chain = <<>>
    /\ \E program \in RingPrograms, phases \in RingPhases, first_input \in RingFirstInputs :
         ring = RingLocals(program, phases, first_input)

\* The index after i in the ring: (i + 1) % num_wires, and the amplifier the
\* for loop comes to next.
RingAfter(locals, i) == (i % Len(locals.amps)) + 1

\* The input the for loop finds for amplifier i: its phase if that has not
\* been handed out, else what is on its wire.
RingInput(locals, i) ==
    IF locals.maybe_phases[i] # <<>> THEN locals.maybe_phases[i] ELSE locals.wires[i]
\* The locals with that input taken.
RingTaken(locals, i) ==
    IF locals.maybe_phases[i] # <<>> THEN [locals EXCEPT !.maybe_phases[i] = <<>>]
    ELSE [locals EXCEPT !.wires[i] = <<>>]

\* The for loop comes to amplifier ring.i: the filter passes over it if it
\* has halted; else it is given its phase, or the word on its wire, in a
\* call of run_until_output, or is skipped for lack of both.
RingVisit ==
    /\ ring.result = <<>>
    /\ ring.call = <<>>
    /\ ring' = IF ~ ring.amps[ring.i].running \/ RingInput(ring, ring.i) = <<>>
               THEN [ring EXCEPT !.i = RingAfter(ring, ring.i)]
               ELSE [RingTaken(ring, ring.i) EXCEPT
                       !.fed[ring.i] = Append(@, RingInput(ring, ring.i)[1]),
                       !.call = <<[the_input |-> RingInput(ring, ring.i),
                                   the_output |-> <<>>]>>]
    /\ UNCHANGED <<cpu_vars, chain, decoder_vars, memory_vars>>

\* The end of the body of the for loop, the amplifier having halted: with
\* the last to halt the function returns what is on wire 0.
RingHalted(locals) ==
    IF locals.total_halted + 1 < Len(locals.amps)
    THEN [locals EXCEPT !.total_halted = @ + 1, !.i = RingAfter(locals, locals.i)]
    ELSE IF locals.wires[1] # <<>>
    THEN [locals EXCEPT !.total_halted = @ + 1, !.wires[1] = <<>>,
                        !.result = RingOk(locals.wires[1][1])]
    ELSE [locals EXCEPT !.total_halted = @ + 1, !.result = RingErr("panic")]

\* run_until_output has returned Ok(the_output): Some(output) goes onto the
\* wire of the next amplifier.
RingWired(locals, dest, the_output) ==
    [locals EXCEPT !.call = <<>>,
                   !.wires[dest] = IF the_output # <<>> THEN the_output ELSE @]

\* The match on what execute_instruction returned, in run_until_output and,
\* where that returns, in the for loop.
RingMatch(locals, i, r, the_output) ==
    IF r.err = "" /\ r.status = "Halt"
    THEN RingHalted(RingWired([locals EXCEPT !.amps[i].running = FALSE],
                              RingAfter(locals, i), the_output))
    ELSE IF r.err = ""
    THEN [locals EXCEPT !.call[1].the_input = IF r.asked_input THEN <<>> ELSE @,
                        !.call[1].the_output = the_output]
    ELSE IF r.err = "IOError" /\ r.asked_input
    THEN [RingWired(locals, RingAfter(locals, i), the_output) EXCEPT
            !.i = RingAfter(locals, i)]
    ELSE [locals EXCEPT !.call = <<>>, !.result = RingErr(r.err)]

\* One execute_instruction call of the loop of run_until_output, its
\* callbacks included.
RingCalled(locals, i, r) ==
    RingMatch([locals EXCEPT !.amps[i].cpu = r.p,
                             !.emitted[i] = @ \o Accepted(r)],
              i, r, KeepOutput(locals.call[1].the_output, Accepted(r)))

\* One turn of the loop of run_until_output on amplifier ring.i.
RingStep ==
    /\ ring.result = <<>>
    /\ ring.call # <<>>
    /\ ring.amps[ring.i].cpu.tracer.event_seqno < MaxSeq
    /\ ring' = RingCalled(ring, ring.i,
                          execute_instruction(ring.amps[ring.i].cpu,
                                              TakeInput(ring.call[1].the_input), {}, {}))
    /\ UNCHANGED <<cpu_vars, chain, decoder_vars, memory_vars>>

RingNext == RingVisit \/ RingStep

SpecRing == RingInit /\ [][RingNext]_vars

(***************************************************************************)
(* What the claims speak of, read off the state before the last call.      *)
(***************************************************************************)
\* mem[a]: the word at address a >= 0, zero if never written.
Cell(p, a) == IF a \in DOMAIN p.ram.content THEN p.ram.content[a] ELSE 0

\* The opcode of the instruction the last step was given, "" when the pc
\* was negative or the word there does not decode.
PreOp ==
    IF pre.pc < 0 THEN ""
    ELSE LET w == Cell(pre, pre.pc)
             code == w % 100
             digits == {(w \div 100) % 10, (w \div 1000) % 10, (w \div 10000) % 10}
         IN  IF w < 0 \/ ~ (digits \subseteq {0, 1, 2}) THEN ""
             ELSE CASE code = 1 -> "Add" [] code = 2 -> "Multiply"
                    [] code = 3 -> "Read" [] code = 4 -> "Write"
                    [] code = 5 -> "JumpTrue" [] code = 6 -> "JumpFalse"
                    [] code = 7 -> "CmpLess" [] code = 8 -> "CmpEq"
                    [] code = 9 -> "DeltaRelBase" [] code = 99 -> "Stop"
                    [] OTHER -> ""

\* The mode digit of parameter slot i of that instruction.
PreMode(i) == (Cell(pre, pre.pc) \div (10 ^ (i + 1))) % 10

\* The address slot i of that instruction stores through (Positional or
\* Relative mode).
PreTarget(i) ==
    IF PreMode(i) = 2 THEN Cell(pre, pre.pc + i) + pre.relative_base
    ELSE Cell(pre, pre.pc + i)

\* mem[pc + i]: the word in parameter slot i of that instruction.
PreSlot(i) == Cell(pre, pre.pc + i)

\* The address slot i of that instruction names, by its mode: the pointer,
\* the slot itself, or the offset plus the relative base (as an unbounded
\* sum).
PreAddr(i) ==
    CASE PreMode(i) = 0 -> PreSlot(i)
      [] PreMode(i) = 1 -> pre.pc + i
      [] OTHER -> PreSlot(i) + pre.relative_base

\* Slot i can be read: the slot and the address it names are addresses of
\* memory.
PreReads(i) == pre.pc + i <= WordMax /\ InRange(PreAddr(i)) /\ PreAddr(i) >= 0
\* Slot i can be stored through: it is not Immediate and names an address of
\* memory.
PreStores(i) == PreMode(i) # 1 /\ PreReads(i)
\* Slot i names a negative address (a negative Positional pointer, or a
\* Relative offset plus base within the Word range and below zero).
PreNegative(i) ==
    PreMode(i) # 1 /\ pre.pc + i <= WordMax /\ InRange(PreAddr(i)) /\ PreAddr(i) < 0

\* The value of operand i: the word at the address slot i names.
PreVal(i) == Cell(pre, PreAddr(i))

\* Whether the jump at pc is taken, given its first operand.
PreTaken ==
    \/ PreOp = "JumpTrue" /\ PreVal(1) # 0
    \/ PreOp = "JumpFalse" /\ PreVal(1) = 0

\* The parameter slots of the instruction at pc.
PreOperandSlots ==
    CASE PreOp \in {"Add", "Multiply", "CmpLess", "CmpEq"} -> {1, 2, 3}
      [] PreOp \in {"JumpTrue", "JumpFalse"} -> {1, 2}
      [] PreOp \in {"Read", "Write", "DeltaRelBase"} -> {1}
      [] OTHER -> {}

\* The slots whose operand value the step asks for: a jump asks for its
\* target only when it is taken.
PreReadSlots ==
    CASE PreOp \in {"Add", "Multiply", "CmpLess", "CmpEq"} -> {1, 2}
      [] PreOp \in {"JumpTrue", "JumpFalse"} ->
           IF PreReads(1) /\ PreTaken THEN {1, 2} ELSE {1}
      [] PreOp \in {"Write", "DeltaRelBase"} -> {1}
      [] OTHER -> {}

\* The storing instructions and the slot each stores through.
PreStoring == PreOp \in {"Add", "Multiply", "CmpLess", "CmpEq", "Read"}
PreStoreSlot == IF PreOp = "Read" THEN 1 ELSE 3

\* The sum or product of an Add or Multiply fits a Word.
PreComputes ==
    CASE PreOp = "Add" -> I64CheckedAdd(PreVal(1), PreVal(2)) # <<>>
      [] PreOp = "Multiply" -> I64CheckedMul(PreVal(1), PreVal(2)) # <<>>
      [] OTHER -> TRUE
\* That sum or product.
PreResult ==
    IF PreOp = "Add" THEN PreVal(1) + PreVal(2) ELSE PreVal(1) * PreVal(2)

\* The step of a storing instruction comes to its store: the operands were
\* read, the result computed, the input supplied, and the target slot is an
\* address.
PreReachesStore ==
    /\ PreStoring
    /\ \A i \in PreReadSlots : PreReads(i)
    /\ PreComputes
    /\ PreOp = "Read" => last.input.err = ""
    /\ pre.pc + PreStoreSlot <= WordMax

\* Memory after the call is memory before it with one store made, at target.
WroteOnly(target) ==
    /\ DOMAIN cpu.ram.content = DOMAIN pre.ram.content \cup {target}
    /\ \A a \in DOMAIN pre.ram.content \ {target} :
         cpu.ram.content[a] = pre.ram.content[a]
    /\ cpu.ram.top = Max(pre.ram.top, target)

Stepped == last.op = "step"
\* The last call was an execute_instruction call, the client's own or one
\* turn of run_with_fixed_input.
Executed == last.op \in {"step", "run_with_fixed_input"}
ReturnedRun == last.err = "" /\ last.status = "Run"
SameRegisters == cpu.pc = pre.pc /\ cpu.relative_base = pre.relative_base
SameMemory == cpu.ram = pre.ram

\* C1: a Read whose input callback answers NoInput returns the fault
\* IOError(NoInput) and leaves pc, memory and relative base as they were; the
\* next call finds the same Read, asks the input callback again and, given a
\* value v, stores v at the Read's target and advances pc by 2 (or returns
\* the fault of resolving that target, and never Halt).
C1_SuspendResume ==
    /\ (Stepped /\ PreOp = "Read" /\ last.input.err = "NoInput")
         => /\ last.err = "IOError" /\ last.detail.kind = "NoInput"
            /\ last.status = ""
            /\ SameRegisters /\ SameMemory
    /\ (Stepped /\ last.after.op = "step" /\ last.after.err = "IOError"
                /\ last.after.kind = "NoInput")
         => /\ PreOp = "Read" /\ last.asked_input
            /\ (last.input.err = "" /\ last.err = "")
                 => /\ last.status = "Run"
                    /\ cpu.pc = pre.pc + 2
                    /\ Cell(cpu, PreTarget(1)) = last.input.val
                    /\ cpu.relative_base = pre.relative_base
            /\ (last.input.err = "" /\ last.err # "")
                 => last.err \in {"AddressingModeNotValidInContext", "MemoryFault",
                                  "Overflow"}

\* A Read that was suspended on NoInput has been resumed with a value, which
\* is now in memory.
C1_Witness ==
    /\ Stepped /\ last.after.err = "IOError" /\ last.after.kind = "NoInput"
    /\ ReturnedRun /\ last.input.err = "" /\ last.input.val = 42
    /\ Cell(cpu, PreTarget(1)) = 42 /\ Cell(pre, PreTarget(1)) # 42

\* C2: when the program reaches Halt, run_with_fixed_input and the client's
\* own execute_instruction loop fed the same list leave the same output
\* words, the same ram() dump, the same pc and the same relative base; and
\* one reaches Halt exactly when the other does.
C2_DriverEquivalence ==
    (Returned(last, "run_with_fixed_input") /\ Returned(twin_last, "step"))
      => /\ (last.err = "") = (twin_last.err = "")
         /\ last.err = ""
              => /\ last.status = "Halt" /\ twin_last.status = "Halt"
                 /\ output = twin_output
                 /\ ram(cpu) = ram(twin)
                 /\ cpu.pc = twin.pc
                 /\ cpu.relative_base = twin.relative_base

\* Both runs of the amplifier program on <<42, -7>> have halted, having
\* written -7 * 10 + 42.
C2_Witness ==
    /\ Returned(last, "run_with_fixed_input") /\ last.status = "Halt"
    /\ Returned(twin_last, "step") /\ twin_last.status = "Halt"
    /\ feed.inputs = <<42, -7>> /\ feed.client_it = <<>>
    /\ output = <<-28>>
    /\ Len(ram(cpu)) = 17

\* C3: a processor with a trace sink bound (all writes succeeding) and one
\* with none, loaded and driven alike, are at every moment in the same
\* state (pc, relative base, memory), have handed the same words to the
\* output callback, have asked the input callback at the same calls, and
\* got the same status or fault from the last call.
C3_TracingObservational ==
    /\ cpu.tracer.output # <<>> /\ twin.tracer.output = <<>>
    /\ cpu.pc = twin.pc
    /\ cpu.relative_base = twin.relative_base
    /\ cpu.ram = twin.ram
    /\ output = twin_output
    /\ last = twin_last

\* The traced processor has run the quine's first Write: the sink holds the
\* lines of the events so far, and the untraced twin wrote the same word.
C3_Witness ==
    /\ Stepped /\ PreOp = "Write" /\ ReturnedRun
    /\ Len(cpu.tracer.output[1]) = 5
    /\ cpu.tracer.output[1][5] = <<4, "io-write", 109>>
    /\ twin_output = <<109>>
    /\ twin.tracer.output = <<>>

\* Negative addresses to try fetch and store with.
NegativeAddresses == {-1, -2, -3, WordMin + 1, WordMin}

\* Memory::fetch and Memory::store refuse a negative address, store leaving
\* memory as it was, and memory holds no cell at a negative address.
NoNegativeCell ==
    /\ \A a \in NegativeAddresses :
         /\ MemoryFetch(cpu.ram, a).err = "MemoryFault"
         /\ MemoryStore(cpu.ram, a, 7).err = "MemoryFault"
         /\ MemoryStore(cpu.ram, a, 7).ram = cpu.ram
    /\ \A a \in DOMAIN cpu.ram.content : a >= 0

\* C4 as stated: fetch and store refuse negative addresses, no cell is ever
\* held at one, and a step returns MemoryFault whenever the pc is negative
\* or any parameter slot of its instruction holds a negative Positional
\* pointer or a Relative offset whose sum with the relative base is
\* negative.
C4_AsClaimed ==
    /\ NoNegativeCell
    /\ (Stepped /\ (\/ pre.pc < 0
                     \/ \E i \in PreOperandSlots : PreMode(i) # 1 /\ PreAddr(i) < 0))
         => last.err = "MemoryFault"

\* C4: fetch and store refuse negative addresses and no cell is ever held at
\* one; a step whose pc is negative returns MemoryFault; a step that asks
\* for an operand, or stores through a slot, naming a negative address
\* never returns Ok and stores nothing there: it returns MemoryFault once
\* it comes to that operand, that is unless an earlier operand, the
\* arithmetic or the input callback has already failed the step.  A jump
\* that is not taken does not ask for its target.
C4_NegativeAddresses ==
    /\ NoNegativeCell
    /\ (Stepped /\ pre.pc < 0) => (last.err = "MemoryFault" /\ SameMemory)
    /\ Stepped =>
         \A i \in PreReadSlots :
            PreNegative(i) =>
              /\ last.err # "" /\ SameMemory
              /\ (\A j \in PreReadSlots : j < i => PreReads(j))
                   => last.err = "MemoryFault"
    /\ (Stepped /\ PreStoring /\ PreNegative(PreStoreSlot)) =>
         /\ last.err # "" /\ SameMemory
         /\ PreReachesStore => last.err = "MemoryFault"

\* An Add with readable operands and a negative Positional store pointer has
\* returned MemoryFault, memory untouched.
C4_Witness ==
    /\ Stepped /\ PreOp = "Add" /\ PreMode(3) = 0 /\ PreSlot(3) = -1
    /\ PreReachesStore
    /\ last.err = "MemoryFault" /\ SameMemory

\* C5: an Add (Multiply) step whose operands were read and whose sum
\* (product) does not fit a Word returns Overflow, with memory, pc and
\* relative base as they were; when the result fits and the target is an
\* address, the target cell holds exactly the sum (product).
C5_ArithmeticOverflow ==
    (Stepped /\ PreOp \in {"Add", "Multiply"} /\ PreReads(1) /\ PreReads(2)) =>
      IF ~ PreComputes
      THEN last.err = "Overflow" /\ SameMemory /\ SameRegisters
      ELSE PreStores(3) =>
             /\ PreAddr(3) \in DOMAIN cpu.ram.content
             /\ cpu.ram.content[PreAddr(3)] = PreResult
             /\ last.err \in {"", "Overflow"}
             /\ last.err = "" <=> pre.pc + 4 <= WordMax

\* An Add of the largest Word to itself has returned Overflow.
C5_Witness ==
    /\ Stepped /\ PreOp = "Add" /\ PreReads(1) /\ PreReads(2)
    /\ PreVal(1) = WordMax /\ PreVal(2) = WordMax
    /\ last.err = "Overflow" /\ SameMemory /\ cpu.pc = pre.pc

\* The modes array with slot index in the given mode.
ModesWith(index, mode) == [NoModes EXCEPT ![index] = mode]

\* The address slot index of the instruction at p's pc names in that mode.
OperandAddr(p, index, mode) ==
    CASE mode = "POSITIONAL" -> Cell(p, p.pc + index)
      [] mode = "IMMEDIATE" -> p.pc + index
      [] OTHER -> Cell(p, p.pc + index) + p.relative_base

\* C6: in every state the processor reaches, get on slot i returns
\* mem[mem[pc+i]] in Positional mode, mem[pc+i] in Immediate mode and
\* mem[mem[pc+i] + relative_base] in Relative mode whenever those are
\* addresses of memory, a never-written cell reading as 0, and leaves
\* memory, pc and relative base as they were; a Write step hands the output
\* callback that value of its slot 1.
C6_OperandRead ==
    /\ \A index \in 1 .. 3, mode \in {"POSITIONAL", "IMMEDIATE", "RELATIVE"} :
         LET g == get(cpu, ModesWith(index, mode), index, {})
             addr == OperandAddr(cpu, index, mode)
         IN  /\ g.p.ram = cpu.ram
             /\ g.p.pc = cpu.pc
             /\ g.p.relative_base = cpu.relative_base
             /\ (cpu.pc + index \in 0 .. WordMax /\ addr \in 0 .. WordMax)
                  => (g.err = "" /\ g.val = Cell(cpu, addr))
    /\ (Stepped /\ PreOp = "Write" /\ last.err = "")
         => (PreReads(1) /\ last.outputs = <<PreVal(1)>>)

\* After the relative base was moved to 2, a Write in Relative mode with
\* offset 0 has handed out the word at address 2, the Write itself.
C6_Witness ==
    /\ Stepped /\ PreOp = "Write" /\ PreMode(1) = 2 /\ ReturnedRun
    /\ pre.relative_base = 2 /\ PreSlot(1) = 0 /\ pre.pc = 2
    /\ last.outputs = <<204>>
    /\ get(pre, ModesWith(1, "RELATIVE"), 1, {}).val = 204

\* C7 as stated: a storing step that succeeds has stored at mem[pc+i]
\* (Positional) or mem[pc+i] + relative_base (Relative) and nowhere else,
\* and a step whose target slot is Immediate returns
\* AddressingModeNotValidInContext with memory unchanged.
C7_AsClaimed ==
    /\ (Stepped /\ PreStoring /\ PreMode(PreStoreSlot) # 1 /\ last.err = "")
         => (PreStores(PreStoreSlot) /\ WroteOnly(PreAddr(PreStoreSlot)))
    /\ (Stepped /\ PreStoring /\ PreMode(PreStoreSlot) = 1)
         => (last.err = "AddressingModeNotValidInContext" /\ SameMemory)

\* C7: a storing step (Add, Multiply, CmpLess, CmpEq through slot 3, Read
\* through slot 1) that comes to its store writes at mem[pc+i] (Positional)
\* or mem[pc+i] + relative_base (Relative) and nowhere else; a step whose
\* target slot is Immediate never returns Ok and changes no cell, and the
\* fault is AddressingModeNotValidInContext once the step comes to the
\* store, that is unless reading an operand, the arithmetic or the input
\* callback has already failed it.
C7_StoreTarget ==
    /\ (Stepped /\ PreStoring /\ PreMode(PreStoreSlot) # 1 /\ last.err = "")
         => (PreStores(PreStoreSlot) /\ WroteOnly(PreAddr(PreStoreSlot)))
    /\ (Stepped /\ PreReachesStore /\ PreStores(PreStoreSlot))
         => WroteOnly(PreAddr(PreStoreSlot))
    /\ (Stepped /\ PreStoring /\ PreMode(PreStoreSlot) = 1)
         => /\ last.err # "" /\ SameMemory
            /\ PreReachesStore => last.err = "AddressingModeNotValidInContext"
            /\ last.err \in {"AddressingModeNotValidInContext", "MemoryFault",
                             "Overflow", "IOError"}

\* A CmpEq whose operands were read and whose slot 3 is Immediate has
\* returned AddressingModeNotValidInContext, memory untouched.
C7_Witness ==
    /\ Stepped /\ PreOp = "CmpEq" /\ PreMode(3) = 1 /\ PreReachesStore
    /\ last.err = "AddressingModeNotValidInContext" /\ SameMemory

\* C8: an Add (Multiply) step that returns Ok returns Run, with the
\* destination cell holding the sum (product) of the operand values as they
\* were before the step, pc advanced by 4, and every other cell and the
\* relative base unchanged; [1,0,0,0,99] run to Halt leaves [2,0,0,0,99] and
\* [2,4,4,5,99,0] leaves [2,4,4,5,99,9801].
C8_AddMultiply ==
    /\ (Stepped /\ PreOp \in {"Add", "Multiply"} /\ last.err = "")
         => /\ last.status = "Run"
            /\ PreReads(1) /\ PreReads(2) /\ PreComputes /\ PreStores(3)
            /\ Cell(cpu, PreAddr(3)) = PreResult
            /\ WroteOnly(PreAddr(3))
            /\ cpu.pc = pre.pc + 4
            /\ cpu.relative_base = pre.relative_base
            /\ ~ last.asked_input /\ last.outputs = <<>>
    /\ (Stepped /\ last.err = "" /\ last.status = "Halt")
         => /\ loaded = <<0, <<1, 0, 0, 0, 99>>>> => ram(cpu) = <<2, 0, 0, 0, 99>>
            /\ loaded = <<0, <<2, 4, 4, 5, 99, 0>>>>
                 => ram(cpu) = <<2, 4, 4, 5, 99, 9801>>

\* [2,4,4,5,99,0] has run to Halt and left 99 * 99 in cell 5.
C8_Witness ==
    /\ Stepped /\ last.err = "" /\ last.status = "Halt"
    /\ loaded = <<0, <<2, 4, 4, 5, 99, 0>>>>
    /\ ram(cpu) = <<2, 4, 4, 5, 99, 9801>>
    /\ cpu.pc = 4

\* C9: a Read step that returns Ok has stored the word the input callback
\* returned at its slot-1 target and nowhere else and advanced pc by 2; a
\* Write step that returns Ok has handed the value of its slot-1 operand to
\* the output callback, changed no memory and advanced pc by 2; and
\* [3,0,4,0,99] run by run_with_fixed_input on [42] returns Ok at Halt with
\* output [42].
C9_ReadWrite ==
    /\ (Executed /\ PreOp = "Read" /\ last.err = "")
         => /\ last.status = "Run"
            /\ last.asked_input /\ last.input.err = ""
            /\ PreStores(1)
            /\ Cell(cpu, PreAddr(1)) = last.input.val
            /\ WroteOnly(PreAddr(1))
            /\ cpu.pc = pre.pc + 2
            /\ cpu.relative_base = pre.relative_base
            /\ last.outputs = <<>>
    /\ (Executed /\ PreOp = "Write" /\ last.err = "")
         => /\ last.status = "Run"
            /\ PreReads(1)
            /\ last.outputs = <<PreVal(1)>>
            /\ output # <<>> /\ output[Len(output)] = PreVal(1)
            /\ SameMemory
            /\ cpu.pc = pre.pc + 2
            /\ cpu.relative_base = pre.relative_base
            /\ ~ last.asked_input
    /\ (/\ loaded = <<0, <<3, 0, 4, 0, 99>>>>
        /\ feed.inputs = <<42>>
        /\ Returned(last, "run_with_fixed_input"))
         => (last.err = "" /\ last.status = "Halt" /\ output = <<42>>)

\* run_with_fixed_input has run [3,0,4,0,99] on [42] to Halt: 42 is in cell
\* 0 and is the one word written.
C9_Witness ==
    /\ loaded = <<0, <<3, 0, 4, 0, 99>>>> /\ feed.inputs = <<42>>
    /\ Returned(last, "run_with_fixed_input")
    /\ last.status = "Halt" /\ output = <<42>>
    /\ ram(cpu) = <<42, 0, 4, 0, 99>>
    /\ feed.fixed_it = <<>>

\* C10: a JumpTrue (JumpFalse) step changes neither memory nor the relative
\* base and invokes no callback; it returns Ok when its first operand p1 can
\* be read and either the jump is taken (p1 != 0 for JumpTrue, p1 == 0 for
\* JumpFalse) and the second operand p2 can be read, or it is not taken and
\* pc + 3 is a Word; when it returns Ok the status is Run and pc is p2 if
\* taken and pc + 3 if not.
C10_ConditionalJumps ==
    (Stepped /\ PreOp \in {"JumpTrue", "JumpFalse"}) =>
      /\ SameMemory
      /\ cpu.relative_base = pre.relative_base
      /\ ~ last.asked_input /\ last.outputs = <<>>
      /\ last.err = "" =>
           /\ last.status = "Run"
           /\ PreReads(1)
           /\ PreTaken => (PreReads(2) /\ cpu.pc = PreVal(2))
           /\ ~ PreTaken => cpu.pc = pre.pc + 3
      /\ (PreReads(1) /\ PreTaken /\ PreReads(2)) => last.err = ""
      /\ (PreReads(1) /\ ~ PreTaken /\ pre.pc + 3 <= WordMax) => last.err = ""

\* The quine's JumpFalse has found cell 101 zero and jumped back from 12 to
\* its target 0.
C10_Witness ==
    /\ Stepped /\ PreOp = "JumpFalse" /\ PreTaken /\ ReturnedRun
    /\ pre.pc = 12 /\ PreVal(1) = 0 /\ PreVal(2) = 0
    /\ cpu.pc = 0

\* What a comparison stores: 1 when it holds of the operand values, else 0.
PreComparison ==
    IF PreOp = "CmpLess"
    THEN (IF PreVal(1) < PreVal(2) THEN 1 ELSE 0)
    ELSE (IF PreVal(1) = PreVal(2) THEN 1 ELSE 0)

\* C11: a CmpLess (CmpEq) step that returns Ok returns Run, having stored at
\* its slot-3 target 1 if p1 < p2 as signed integers (if p1 = p2) and 0
\* otherwise, changed no other cell, advanced pc by 4 and left the relative
\* base alone; it returns Ok whenever both operands can be read, the target
\* is an address and pc + 4 is a Word; and whenever it comes to its store the
\* cell holds that 0 or 1.
C11_Comparisons ==
    (Stepped /\ PreOp \in {"CmpLess", "CmpEq"}) =>
      /\ last.err = "" =>
           /\ last.status = "Run"
           /\ PreReads(1) /\ PreReads(2) /\ PreStores(3)
           /\ Cell(cpu, PreAddr(3)) = PreComparison
           /\ Cell(cpu, PreAddr(3)) \in {0, 1}
           /\ WroteOnly(PreAddr(3))
           /\ cpu.pc = pre.pc + 4
           /\ cpu.relative_base = pre.relative_base
           /\ ~ last.asked_input /\ last.outputs = <<>>
      /\ (PreReads(1) /\ PreReads(2) /\ PreStores(3))
           => /\ Cell(cpu, PreAddr(3)) = PreComparison
              /\ WroteOnly(PreAddr(3))
              /\ last.err = "" <=> pre.pc + 4 <= WordMax
      /\ last.err # "" => cpu.pc = pre.pc

\* A CmpLess of -1 with 0 has stored 1, and one of 0 with -1 would store 0:
\* the comparison is signed.
C11_Witness ==
    /\ Stepped /\ PreOp = "CmpLess" /\ ReturnedRun
    /\ PreVal(1) = -1 /\ PreVal(2) = 0
    /\ PreAddr(3) = 6 /\ Cell(cpu, 6) = 1 /\ Cell(pre, 6) = 0
    /\ cpu.pc = pre.pc + 4

\* C12: a DeltaRelBase step touches no memory and invokes no callback; when
\* it returns Ok it returns Run with the relative base moved by its operand
\* p1 (down as well as up, and below zero) and pc advanced by 2; when p1 can
\* be read and relative_base + p1 is not a Word it returns Overflow with the
\* relative base and pc as they were; when the sum is a Word the relative
\* base becomes the sum, and the step returns Ok exactly when pc + 2 is a
\* Word too.
C12_AdjustRelativeBase ==
    (Stepped /\ PreOp = "DeltaRelBase") =>
      /\ SameMemory
      /\ ~ last.asked_input /\ last.outputs = <<>>
      /\ last.err = "" =>
           /\ last.status = "Run"
           /\ PreReads(1)
           /\ cpu.relative_base = pre.relative_base + PreVal(1)
           /\ cpu.pc = pre.pc + 2
      /\ (PreReads(1) /\ ~ InRange(pre.relative_base + PreVal(1)))
           => (last.err = "Overflow" /\ SameRegisters)
      /\ (PreReads(1) /\ InRange(pre.relative_base + PreVal(1)))
           => /\ cpu.relative_base = pre.relative_base + PreVal(1)
              /\ last.err \in {"", "Overflow"}
              /\ last.err = "" <=> pre.pc + 2 <= WordMax
      /\ ~ PreReads(1) => (last.err # "" /\ SameRegisters)

\* With the relative base at the largest Word, a DeltaRelBase by 1 has
\* returned Overflow and left it there.
C12_Witness ==
    /\ Stepped /\ PreOp = "DeltaRelBase" /\ PreReads(1)
    /\ pre.relative_base = WordMax /\ PreVal(1) = 1
    /\ last.err = "Overflow"
    /\ cpu.relative_base = WordMax /\ cpu.pc = pre.pc

\* C13: a step whose instruction is Stop returns Ok(Halt) with pc, memory
\* and relative base as they were and invokes neither callback; Halt is
\* returned by no other instruction; and the step that follows one that
\* returned Halt finds the same Stop, returns Halt again and changes
\* nothing.
C13_HaltTerminal ==
    /\ (Stepped /\ PreOp = "Stop")
         => /\ last.err = "" /\ last.status = "Halt"
            /\ SameRegisters /\ SameMemory
            /\ ~ last.asked_input /\ last.outputs = <<>>
    /\ (Stepped /\ last.status = "Halt") => (PreOp = "Stop" /\ last.err = "")
    /\ (Stepped /\ last.after.op = "step" /\ last.after.err = ""
                /\ last.after.status = "Halt")
         => /\ PreOp = "Stop"
            /\ last.err = "" /\ last.status = "Halt"
            /\ SameRegisters /\ SameMemory
            /\ ~ last.asked_input /\ last.outputs = <<>>

\* [1,0,0,0,99] has reached its Stop at 4 and been stepped once more: both
\* calls returned Halt and the dump is still [2,0,0,0,99].
C13_Witness ==
    /\ Stepped /\ last.after.op = "step" /\ last.after.status = "Halt"
    /\ last.err = "" /\ last.status = "Halt"
    /\ loaded = <<0, <<1, 0, 0, 0, 99>>>>
    /\ cpu.pc = 4 /\ pre.pc = 4
    /\ ram(cpu) = <<2, 0, 0, 0, 99>>

\* The name of enum Opcode's variant with this number, and of
\* AddressingMode's variant with this digit.
OpcodeNamed(code) ==
    CASE code = 1 -> "Add" [] code = 2 -> "Multiply" [] code = 3 -> "Read"
      [] code = 4 -> "Write" [] code = 5 -> "JumpTrue" [] code = 6 -> "JumpFalse"
      [] code = 7 -> "CmpLess" [] code = 8 -> "CmpEq" [] code = 9 -> "DeltaRelBase"
      [] code = 99 -> "Stop"
ModeNamed(digit) ==
    CASE digit = 0 -> "POSITIONAL" [] digit = 1 -> "IMMEDIATE" [] digit = 2 -> "RELATIVE"

\* The decimal digit of v that holds the mode of parameter slot i.
ModeDigit(v, i) == (v \div (10 ^ (i + 1))) % 10

\* C14: for a non-negative word v, decode succeeds exactly when v mod 100 is
\* an opcode number and each of the digits (v/100) mod 10, (v/1000) mod 10
\* and (v/10000) mod 10 is 0, 1 or 2, whatever the opcode; on success the
\* opcode and the three modes are those values (0 Positional, 1 Immediate,
\* 2 Relative); on failure the error is BadOpcode if v mod 100 is no
\* opcode number and BadAddressingMode otherwise.
C14_DecoderCharacterisation ==
    (decoded # <<>> /\ word[1].instruction >= 0) =>
      LET v == word[1].instruction
          d == decoded[1]
          valid_op == v % 100 \in OpcodeCodes
          valid_modes == \A i \in 1 .. 3 : ModeDigit(v, i) \in {0, 1, 2}
      IN  /\ d.err = "" <=> (valid_op /\ valid_modes)
          /\ d.err = "" =>
               /\ d.op = OpcodeNamed(v % 100)
               /\ \A i \in 1 .. 3 : d.addressing_modes[i] = ModeNamed(ModeDigit(v, i))
          /\ ~ valid_op =>
               (d.err = "InvalidInstruction" /\ d.kind = "BadOp" /\ d.bad = v % 100)
          /\ (valid_op /\ ~ valid_modes) =>
               (d.err = "InvalidInstruction" /\ d.kind = "BadAddrMode")
          /\ d.err # "" => (d.instruction = v /\ d.address = <<word[1].pc>>)

\* 399, a Stop with a stray 3 in the digit of slot 1, was refused as a bad
\* addressing mode although Stop has no parameters.
C14_Witness ==
    /\ decoded # <<>> /\ word[1].instruction = 399
    /\ decoded[1].err = "InvalidInstruction" /\ decoded[1].kind = "BadAddrMode"
    /\ decoded[1].bad = 3

\* C15: the word code + 100*m1 + 1000*m2 + 10000*m3 built from an opcode
\* number and three mode digits in {0,1,2} decodes, to exactly that opcode
\* and those three modes.
C15_DecodeRoundTrip ==
    (decoded # <<>> /\ word[1].parts # <<>>) =>
      LET parts == word[1].parts
          d == decoded[1]
      IN  /\ d.err = ""
          /\ d.op = OpcodeNamed(parts[1])
          /\ \A i \in 1 .. 3 : d.addressing_modes[i] = ModeNamed(parts[i + 1])

\* 99 with modes (2, 1, 0), the word 1299, decoded to Stop with slot 1
\* Relative, slot 2 Immediate and slot 3 Positional.
C15_Witness ==
    /\ decoded # <<>> /\ word[1].parts = <<99, 2, 1, 0>>
    /\ word[1].instruction = 1299
    /\ decoded[1].err = "" /\ decoded[1].op = "Stop"
    /\ decoded[1].addressing_modes = [NoModes EXCEPT ![0] = "POSITIONAL", ![1] = "RELATIVE", ![2] = "IMMEDIATE", ![3] = "POSITIONAL"]

\* C16: on a newly constructed Processor, load(Word(0), P) returns Ok and
\* ram() right after it returns exactly the Len(P) words of P, the empty
\* sequence when P is empty.
C16_LoadDumpRoundTrip ==
    (last.op = "load" /\ loaded[1] = 0) =>
      /\ last.err = ""
      /\ Len(ram(cpu)) = Len(loaded[2])
      /\ \A i \in 1 .. Len(loaded[2]) : ram(cpu)[i] = loaded[2][i]
      /\ loaded[2] = <<>> => ram(cpu) = <<>>

\* The quine's 16 words were loaded at 0 and dumped back, the -1 in cell 3
\* and the final 99 included.
C16_Witness ==
    /\ last.op = "load" /\ last.err = ""
    /\ loaded[1] = 0 /\ Len(loaded[2]) = 16 /\ loaded[2][1] = 109
    /\ Len(ram(cpu)) = 16
    /\ ram(cpu)[4] = -1 /\ ram(cpu)[16] = 99

\* The value of the most recent write to address a that the log holds, as a
\* sequence: <<>> when a was never written.
LastWritten(log, a) ==
    LET at == {i \in 1 .. Len(log) : log[i][1] = a}
    IN  IF at = {} THEN <<>>
        ELSE <<log[CHOOSE i \in at : \A j \in at : j <= i][2]>>

\* What fetch(a) is to return by the log: the most recent write, else zero.
Expected(log, a) == IF LastWritten(log, a) = <<>> THEN 0 ELSE LastWritten(log, a)[1]

\* The addresses written so far, and the highest of them.
WrittenAddresses == {written[i][1] : i \in 1 .. Len(written)}
Highest == CHOOSE h \in WrittenAddresses : \A a \in WrittenAddresses : a <= h

\* C17: whatever loads and stores were made, fetch(a) for an address a >= 0
\* returns Ok with the value of the most recent write to a, and Ok(0) if a
\* was never written, addresses above every written one included.
C17_UnwrittenReadZero ==
    /\ (probe.op = "fetch" /\ probe.args[1] >= 0)
         => /\ probe.err = ""
            /\ probe.result = <<Expected(written, probe.args[1])>>
            /\ LastWritten(written, probe.args[1]) = <<>> => probe.result = <<0>>
    /\ \A a \in FetchAddrs :
         a >= 0 => MemoryFetch(mem, a) = [err |-> "", val |-> Expected(written, a)]

\* 9 and then 0 were stored at address 3; fetch(3) returned the 0, the later
\* write.
C17_Witness ==
    /\ written = <<<<3, 9>>, <<3, 0>>>>
    /\ probe.op = "fetch" /\ probe.args = <<3>>
    /\ probe.err = "" /\ probe.result = <<0>>

\* C18: dump returns the empty sequence while nothing was written; once a
\* cell was written it returns exactly H + 1 words, H being the highest
\* address written so far, word i being what fetch(i) returns: the last
\* value written at i, zero where nothing was.
C18_DenseDump ==
    probe.op = "dump" =>
      LET words == probe.result[1]
      IN  IF written = <<>> THEN words = <<>>
          ELSE /\ Len(words) = Highest + 1
               /\ \A i \in 0 .. Highest :
                    /\ words[i + 1] = Expected(written, i)
                    /\ MemoryFetch(mem, i) = [err |-> "", val |-> words[i + 1]]
                    /\ i \notin WrittenAddresses => words[i + 1] = 0

\* After store(3, 9) alone, dump returned four words: three zeros for the
\* gap and the 9.
C18_Witness ==
    /\ written = <<<<3, 9>>>>
    /\ probe.op = "dump"
    /\ probe.result = <<<<0, 0, 0, 9>>>>

\* The variants of CpuFault a call can return.
CpuFaults ==
    {"MemoryFault", "Overflow", "InvalidInstruction",
     "AddressingModeNotValidInContext", "IOError", "TraceError"}

\* Some address base + k the load is to write is negative or is not a Word.
LoadLeavesRange(base, words) ==
    \E k \in 0 .. Len(words) - 1 : base + k < 0 \/ ~ InRange(base + k)

\* C19 as stated: load(base, words) returns a fault whenever base < 0 or some
\* address base + k it would write is negative or not a Word; otherwise it
\* returns Ok, words[k] is then at base + k for every k and the high-water
\* mark is at least base + len(words) - 1; and memory never holds a cell at
\* a negative address.
C19_AsClaimed ==
    /\ probe.op = "load" =>
         LET base == probe.args[1]
             words == probe.args[2]
         IN  IF base < 0 \/ LoadLeavesRange(base, words)
             THEN probe.err \in CpuFaults
             ELSE /\ probe.err = ""
                  /\ \A k \in 0 .. Len(words) - 1 :
                       MemoryFetch(mem, base + k) = [err |-> "", val |-> words[k + 1]]
                  /\ words # <<>> => mem.top >= base + Len(words) - 1
    /\ \A a \in DOMAIN mem.content : a >= 0

\* C20: under run_with_fixed_input(I, out) the k-th Read executed (from 0)
\* is answered with I[k], the inputs not yet handed out being those after
\* the ones the Reads so far have used; a Read executed when all of I is
\* used makes the run return IOError(NoInput); a run returns only on Halt,
\* with Ok, or on a fault, and inputs left over at Halt are no error.
C20_FixedInputOrdering ==
    LET inputs == feed.inputs
        used == Min(feed.reads, Len(inputs))
    IN  /\ feed.fixed_it = SubSeq(inputs, used + 1, Len(inputs))
        /\ (last.op = "run_with_fixed_input" /\ PreOp = "Read") =>
             /\ feed.reads >= 1 /\ last.asked_input
             /\ IF feed.reads <= Len(inputs)
                THEN /\ last.input = [err |-> "", val |-> inputs[feed.reads]]
                     /\ ~ (last.err = "IOError" /\ last.detail.kind = "NoInput")
                     /\ last.err = "" => Cell(cpu, PreAddr(1)) = inputs[feed.reads]
                ELSE /\ last.err = "IOError" /\ last.detail.kind = "NoInput"
                     /\ Returned(last, "run_with_fixed_input")
                     /\ SameMemory /\ SameRegisters
        /\ (last.op = "run_with_fixed_input" /\ PreOp # "Read") => ~ last.asked_input
        /\ Returned(last, "run_with_fixed_input") =>
             \/ last.err = "" /\ last.status = "Halt" /\ PreOp = "Stop"
             \/ last.err \in CpuFaults
        /\ (last.op = "run_with_fixed_input" /\ PreOp = "Stop")
             => (Returned(last, "run_with_fixed_input") /\ last.err = "")

\* The amplifier program run on [42, -7]: its second Read has just been
\* answered with -7, the second input, and the list is used up.
C20_Witness ==
    /\ last.op = "run_with_fixed_input" /\ PreOp = "Read" /\ ReturnedRun
    /\ feed.inputs = <<42, -7>> /\ feed.reads = 2
    /\ last.input.val = -7 /\ feed.fixed_it = <<>>
    /\ Cell(cpu, 16) = -7 /\ Cell(cpu, 15) = 42

(***************************************************************************)
(* C21.  The quine of day 9, as test_quine runs it.                        *)
(***************************************************************************)
Quine == <<109, 1, 204, -1, 1001, 100, 1, 100, 1008, 100, 16, 101, 1006, 101, 0, 99>>

IsPrefix(s, t) == Len(s) <= Len(t) /\ SubSeq(t, 1, Len(s)) = s

\* C21: the quine loaded at base 0 on a processor with pc 0 and run, by
\* run_with_fixed_input on cpu and by the client's loop on twin, reaches Halt
\* without a fault; it never asks for input, so the input list is left as it
\* was; and the words handed to the output callback are the 16 loaded words in
\* order: while it runs they are a prefix of the program, and when it has
\* returned they are the whole of it.
C21_Quine ==
    (last.op \in {"load", "run_with_fixed_input"} /\ loaded = <<0, Quine>>) =>
        /\ last.err = ""
        /\ ~ last.asked_input /\ ~ twin_last.asked_input
        /\ feed.reads = 0
        /\ feed.fixed_it = feed.inputs /\ feed.client_it = feed.inputs
        /\ IsPrefix(output, Quine) /\ IsPrefix(twin_output, Quine)
        /\ Returned(last, "run_with_fixed_input") =>
             last.status = "Halt" /\ output = Quine
        /\ twin_last.op = "step" => twin_last.err = ""
        /\ Returned(twin_last, "step") =>
             twin_last.status = "Halt" /\ twin_output = Quine

C21_Witness ==
    /\ loaded = <<0, Quine>> /\ feed.inputs = <<>>
    /\ Returned(last, "run_with_fixed_input") /\ last.status = "Halt"
    /\ output = Quine
    /\ Returned(twin_last, "step") /\ twin_output = Quine
    /\ cpu.pc = 15 /\ Cell(cpu, 100) = 16 /\ Cell(cpu, 101) = 1

(***************************************************************************)
(* C22.  The callbacks are invoked exactly when the opcode demands it.     *)
(***************************************************************************)
\* What one execute_instruction call did with the callbacks.
CallbacksAsDemanded ==
    Stepped =>
        /\ last.asked_input => PreOp = "Read"
        /\ Len(last.outputs) <= 1
        /\ last.outputs # <<>> =>
             PreOp = "Write" /\ PreReads(1) /\ last.outputs = <<PreVal(1)>>
        /\ PreOp = "" => ~ last.asked_input /\ last.outputs = <<>>
        /\ (PreOp = "Write" /\ PreReads(1)) => last.outputs = <<PreVal(1)>>
        /\ PreOp = "Read" => last.asked_input

\* What one execute_instruction call adds to the words the output callback
\* has taken: the word it was handed, unless it refused it.
OutputsInOrder ==
    last'.op = "step" =>
        output' = output \o (IF last'.rejected THEN <<>> ELSE last'.outputs)

\* C22: a single execute_instruction call invokes the input callback only
\* for a Read and the output callback only for a Write, each at most once, and
\* neither when the fetch or the decoding of the instruction fails; a Write
\* whose operand can be read hands the output callback that operand, so that
\* over a run the callback receives the operands of the Writes in the order
\* they were executed, once each.
C22_CallbacksWhenDemanded == [](CallbacksAsDemanded) /\ [][OutputsInOrder]_vars

C22_Witness ==
    /\ Stepped /\ PreOp = "Write" /\ loaded = <<0, Quine>>
    /\ last.outputs = <<1>> /\ output = <<109, 1>>
    /\ ~ last.asked_input

(***************************************************************************)
(* C23.  Processors do not share state.                                    *)
(***************************************************************************)
\* A turn of one loop changes nothing of the other processor.  A call of
\* execute_instruction shows in the record of the loop's last call or in
\* the trace points its processor has passed.
TurnOf(p, q, call, called) ==
    called.op = "step" /\ (called # call \/ q.tracer.event_seqno # p.tracer.event_seqno)

OthersKept ==
    /\ TurnOf(cpu, cpu', last, last') =>
         twin' = twin /\ twin_output' = twin_output /\ twin_last' = twin_last
    /\ TurnOf(twin, twin', twin_last, twin_last') =>
         cpu' = cpu /\ output' = output /\ last' = last

\* The two processors have made the same progress through the same run:
\* neither tracer has a sink, event_seqno counts the trace points passed,
\* and a call that faults before its first trace point ends the loop.
SameProgress ==
    /\ cpu.tracer.event_seqno = twin.tracer.event_seqno
    /\ Running(last, "step") <=> Running(twin_last, "step")

DriverTurn == last.op \in {"run_with_io", "run_with_fixed_input"}

\* The sequence numbers the last step took and the lines it got written:
\* a write failed when a number was taken and no line came of it.
LinesTaken == cpu.tracer.event_seqno - pre.tracer.event_seqno
LinesWritten == Len(cpu.tracer.output[1]) - Len(pre.tracer.output[1])
WriteFailed == LinesTaken > LinesWritten

\* C24: with a sink bound, a step in which the write of a trace line fails
\* returns the fault TraceError and leaves the pc where it was, and no other
\* step returns that fault; the loop of run_with_io or run_with_fixed_input
\* returns the fault at once, so no turn ever follows one that ended in
\* TraceError.
C24_TraceFailureFatal ==
    DriverTurn =>
        /\ WriteFailed <=> last.err = "TraceError"
        /\ WriteFailed =>
             /\ cpu.pc = pre.pc
             /\ LinesTaken = LinesWritten + 1
             /\ Returned(last, last.op)
        /\ last.after.err # "TraceError"
        /\ last.after.op \in {"load", last.op}

C24_Witness ==
    /\ DriverTurn /\ WriteFailed /\ last.err = "TraceError"
    /\ loaded = <<0, <<1, 0, 0, 0, 99>>>>
    /\ LinesTaken = 3 /\ LinesWritten = 2
    /\ cpu.pc = 0 /\ SameMemory

(***************************************************************************)
(* C25.  The lines a traced step writes, and their numbering.              *)
(***************************************************************************)
TraceLog(p) == p.tracer.output[1]

\* The lines the last step appended to the sink.
NewLines == SubSeq(TraceLog(cpu), Len(TraceLog(pre)) + 1, Len(TraceLog(cpu)))

\* The operand slots the step read, in order, up to the first it could not.
SlotsRead ==
    IF 1 \in PreReadSlots /\ PreReads(1)
    THEN IF 2 \in PreReadSlots /\ PreReads(2) THEN <<1, 2>> ELSE <<1>>
    ELSE <<>>
AllRead == Len(SlotsRead) = Cardinality(PreReadSlots)

\* put comes to its trace line once the mode and the slot gave an address,
\* before the store is tried.
StoreTraced(i) ==
    PreMode(i) # 1 /\ pre.pc + i <= WordMax /\ InRange(PreAddr(i))

StoreLine(i, value) ==
    IF StoreTraced(i) THEN << <<"store", PreAddr(i), value>> >> ELSE <<>>

\* The lines of a step, without their numbers: execute, a load for each
\* operand read, then what the arm writes.
StepLines ==
    IF pre.pc < 0 THEN <<>>
    ELSE << <<"execute", pre.pc, Cell(pre, pre.pc)>> >>
         \o [k \in 1 .. Len(SlotsRead) |->
               <<"load", PreAddr(SlotsRead[k]), PreVal(SlotsRead[k])>>]
         \o CASE PreOp = "Read" ->
                   IF last.input.err = ""
                   THEN << <<"io-read", last.input.val>> >>
                        \o StoreLine(1, last.input.val)
                   ELSE <<>>
              [] PreOp = "Write" ->
                   IF AllRead THEN << <<"io-write", PreVal(1)>> >> ELSE <<>>
              [] PreOp \in {"Add", "Multiply"} ->
                   IF AllRead /\ PreComputes THEN StoreLine(3, PreResult) ELSE <<>>
              [] PreOp \in {"CmpLess", "CmpEq"} ->
                   IF AllRead THEN StoreLine(3, PreComparison) ELSE <<>>
              [] OTHER -> <<>>

Numbered(lines, first) == [k \in 1 .. Len(lines) |-> <<first + k - 1>> \o lines[k]]

\* C25: with a sink bound that takes every line, a step whose fetch succeeds
\* appends first an execute line with the pc and the instruction word, then
\* one load line for each operand value it read, in slot order, then one
\* io-read or io-write line for a Read that got its input or a Write, and one
\* store line for each store it came to; the lines carry consecutive sequence
\* numbers that continue those of the previous step, so the numbers in the
\* sink increase strictly across all kinds of line.
C25_TraceLogOrdering ==
    /\ Stepped =>
         /\ NewLines = Numbered(StepLines, pre.tracer.event_seqno)
         /\ pre.pc >= 0 => NewLines # <<>> /\ NewLines[1][2] = "execute"
         /\ cpu.tracer.event_seqno = pre.tracer.event_seqno + Len(NewLines)
    /\ \A i \in 1 .. Len(TraceLog(cpu)) - 1 :
         TraceLog(cpu)[i][1] < TraceLog(cpu)[i + 1][1]

C25_Witness ==
    /\ Stepped /\ loaded = <<0, <<1, 1, 1, 4, 99, 5, 6, 0, 99>>>>
    /\ TraceLog(cpu) = << <<0, "execute", 0, 1>>, <<1, "load", 1, 1>>,
                          <<2, "load", 1, 1>>, <<3, "store", 4, 2>>,
                          <<4, "execute", 4, 2>>, <<5, "load", 5, 5>>,
                          <<6, "load", 6, 6>>, <<7, "store", 0, 30>> >>

(***************************************************************************)
(* C26.  Side effects and the resolution of operands.                      *)
(***************************************************************************)
\* Every operand slot of the instruction at pc names an address the step can
\* use: the slots it reads can be read, the slot it stores through can be
\* stored through.
OperandsResolve ==
    /\ \A i \in PreOperandSlots \ (IF PreStoring THEN {PreStoreSlot} ELSE {}) :
         PreReads(i)
    /\ PreStoring => PreStores(PreStoreSlot)

SideEffect ==
    \/ last.asked_input
    \/ last.outputs # <<>>
    \/ ~ SameMemory
    \/ cpu.relative_base # pre.relative_base

\* C26, as the claim states it: a step has a side effect (a callback
\* invoked, a cell stored, the relative base changed) only if all its
\* operand addresses resolved; a Read whose destination is Immediate or
\* negative takes no value from the input callback; and a step that returns
\* a fault has changed neither memory nor the relative base.
C26_AsClaimed ==
    Stepped =>
        /\ SideEffect => OperandsResolve
        /\ (PreOp = "Read" /\ ~ PreStores(1)) => ~ last.asked_input
        /\ last.err # "" => SameMemory /\ cpu.relative_base = pre.relative_base

(***************************************************************************)
(* C27.  A program may rewrite the instructions it goes on to execute.     *)
(***************************************************************************)
SelfModifying == <<1, 1, 1, 4, 99, 5, 6, 0, 99>>

\* The width of the instruction the word at pc decodes to.
PreWidth ==
    CASE PreOp \in {"Add", "Multiply", "CmpLess", "CmpEq"} -> 4
      [] PreOp \in {"JumpTrue", "JumpFalse"} -> 3
      [] PreOp \in {"Read", "Write", "DeltaRelBase"} -> 2
      [] OTHER -> 0

\* C27: a step executes the word that memory holds at pc when the step is
\* made, whatever was loaded there: it halts exactly when that word is a
\* Stop, fails to decode exactly when that word does not decode, and when it
\* returns Run without jumping it has moved pc by that instruction's width.
\* So [1,1,1,4,99,5,6,0,99] stores 2 over the 99 in cell 4, then executes
\* the cell as a Multiply, and halts at cell 8 with memory
\* [30,1,1,4,2,5,6,0,99].
C27_SelfModifyingCode ==
    Stepped =>
        /\ last.status = "Halt" <=> (PreOp = "Stop")
        /\ pre.pc >= 0 => (last.err = "InvalidInstruction" <=> PreOp = "")
        /\ (ReturnedRun /\ ~ PreTaken) => cpu.pc = pre.pc + PreWidth
        /\ loaded = <<0, SelfModifying>> =>
             /\ last.err = ""
             /\ pre.pc = 0 => ReturnedRun /\ cpu.pc = 4 /\ Cell(cpu, 4) = 2
             /\ pre.pc = 4 =>
                  /\ Cell(pre, 4) = 2 /\ PreOp = "Multiply"
                  /\ ReturnedRun /\ cpu.pc = 8
                  /\ ram(cpu) = <<30, 1, 1, 4, 2, 5, 6, 0, 99>>
             /\ pre.pc = 8 =>
                  /\ last.status = "Halt" /\ cpu.pc = 8
                  /\ ram(cpu) = <<30, 1, 1, 4, 2, 5, 6, 0, 99>>
             /\ pre.pc \in {0, 4, 8}

C27_Witness ==
    /\ Stepped /\ loaded = <<0, SelfModifying>>
    /\ pre.pc = 8 /\ last.status = "Halt" /\ last.after.status = "Run"
    /\ loaded[2][5] = 99 /\ Cell(cpu, 4) = 2
    /\ ram(cpu) = <<30, 1, 1, 4, 2, 5, 6, 0, 99>>

(***************************************************************************)
(* C28.  What a step reports of a word that does not decode.               *)
(***************************************************************************)
\* C28: a step at a pc whose word does not decode returns
\* InvalidInstruction carrying that word and Some(pc), invokes neither
\* callback, and leaves memory, pc and relative base as they were.
C28_InvalidInstruction ==
    (Stepped /\ pre.pc >= 0 /\ PreOp = "") =>
        /\ last.err = "InvalidInstruction"
        /\ last.detail.word = Cell(pre, pre.pc)
        /\ last.detail.address = <<pre.pc>>
        /\ last.detail.kind \in {"BadOp", "BadAddrMode"}
        /\ ~ last.asked_input /\ last.outputs = <<>>
        /\ SameMemory /\ SameRegisters
        /\ cpu.tracer.event_seqno = pre.tracer.event_seqno + 1

C28_Witness ==
    /\ Stepped /\ pre.pc = 0 /\ PreOp = ""
    /\ loaded = <<0, <<301, 0, 0, 0>>>>
    /\ last.detail.kind = "BadAddrMode"
    /\ last.err = "InvalidInstruction"
    /\ last.detail.word = 301 /\ last.detail.address = <<0>>

(***************************************************************************)
(* C29.  A second load overwrites and extends, and does nothing else.      *)
(***************************************************************************)
Reloaded == last.op = "reload" /\ last.err = ""

\* The addresses of memory (Words that are not negative) that hold a cell
\* before or after the last call.
CellsHeld ==
    {a \in DOMAIN pre.ram.content \cup DOMAIN cpu.ram.content : a >= 0}

PreAskedSlots == PreReadSlots \cup (IF PreStoring THEN {PreStoreSlot} ELSE {})

\* The step comes to ask for slot i: the slots before it were read, and the
\* arm got as far as its store if i is the slot stored through.
PreAsks(i) ==
    /\ i \in PreAskedSlots
    /\ \A j \in PreReadSlots : j < i => PreReads(j)
    /\ (PreStoring /\ i = PreStoreSlot) =>
         /\ PreComputes
         /\ PreOp = "Read" => last.input.err = ""

\* Everything the arm does before it advances the pc went well.
PreArmCompletes ==
    CASE PreOp \in {"Add", "Multiply", "CmpLess", "CmpEq", "Read"} ->
           PreReachesStore /\ PreStores(PreStoreSlot)
      [] PreOp = "Write" -> PreReads(1) /\ ~ last.rejected
      [] PreOp \in {"JumpTrue", "JumpFalse"} -> PreReads(1) /\ ~ PreTaken
      [] PreOp = "DeltaRelBase" ->
           PreReads(1) /\ InRange(pre.relative_base + PreVal(1))
      [] OTHER -> FALSE

\* C30: a step that comes to ask for an operand slot at pc + index beyond
\* the largest Word returns Overflow, and so does a step that has done all
\* its arm does and whose pc + width is beyond the largest Word; in both
\* cases, and in any step that returns a fault, the pc stays where it was.
\* A step that does not jump never leaves the pc below its old value: the
\* sum is never wrapped.
C30_CheckedPcArithmetic ==
    (Stepped /\ pre.pc >= 0 /\ PreOp # "") =>
        /\ \A i \in 1 .. 3 :
             (PreAsks(i) /\ pre.pc + i > WordMax) =>
                 last.err = "Overflow" /\ cpu.pc = pre.pc
        /\ (PreArmCompletes /\ pre.pc + PreWidth > WordMax) =>
             last.err = "Overflow" /\ cpu.pc = pre.pc
        /\ last.err # "" => cpu.pc = pre.pc
        /\ (PreArmCompletes /\ pre.pc + PreWidth <= WordMax) =>
             ReturnedRun /\ cpu.pc = pre.pc + PreWidth
        /\ ~ (PreTaken /\ ReturnedRun) => cpu.pc >= pre.pc
        /\ InRange(cpu.pc)

\* A Write at pc = WordMax - 1 that handed out its word and then could not
\* advance.
C30_Witness ==
    /\ Stepped /\ pre.pc = WordMax - 1 /\ PreOp = "Write"
    /\ last.outputs = <<5>> /\ ~ last.rejected
    /\ last.err = "Overflow" /\ cpu.pc = WordMax - 1

(***************************************************************************)
(* C33.  Negative instruction words.                                       *)
(***************************************************************************)
\* The remainder of v < 0 by 100, truncated toward zero: zero or negative.
NegativeRemainder(v) == 0 - ((0 - v) % 100)

\* C33: decode of a word v < 0 fails with InvalidInstruction of kind BadOp
\* carrying the truncated remainder of v by 100, which is zero or negative
\* and so none of the ten opcode numbers; -1 and -99 do not decode as Stop.
C33_NegativeWords ==
    (decoded # <<>> /\ word[1].instruction < 0) =>
        /\ decoded[1].err = "InvalidInstruction"
        /\ decoded[1].kind = "BadOp"
        /\ decoded[1].bad = NegativeRemainder(word[1].instruction)
        /\ decoded[1].bad <= 0 /\ decoded[1].bad \notin OpcodeCodes
        /\ decoded[1].op = ""
        /\ decoded[1].instruction = word[1].instruction

C33_Witness ==
    /\ decoded # <<>> /\ word[1].instruction = -99
    /\ decoded[1].err = "InvalidInstruction" /\ decoded[1].kind = "BadOp"
    /\ decoded[1].bad = -99

(***************************************************************************)
(* C34.  Jumps: the target is resolved only when the jump is taken.        *)
(***************************************************************************)
PreJump == PreOp \in {"JumpTrue", "JumpFalse"}

\* C34: a jump whose first operand can be read and which is not taken
\* returns Run with pc + 3 (where that fits a Word) whether or not its second
\* operand could be resolved, and reads nothing of it; a jump that is taken
\* to a negative target returns Run with the pc at that target, and the step
\* made at a negative pc returns MemoryFault and changes nothing.
C34_UntakenJumps ==
    Stepped =>
        /\ (PreJump /\ PreReads(1) /\ ~ PreTaken /\ pre.pc + 3 <= WordMax) =>
             /\ ReturnedRun /\ cpu.pc = pre.pc + 3
             /\ SameMemory /\ cpu.relative_base = pre.relative_base
             /\ cpu.tracer.event_seqno = pre.tracer.event_seqno + 2
        /\ (PreJump /\ PreReads(1) /\ PreTaken /\ PreReads(2) /\ PreVal(2) < 0) =>
             ReturnedRun /\ cpu.pc = PreVal(2)
        /\ pre.pc < 0 =>
             last.err = "MemoryFault" /\ SameMemory /\ SameRegisters

\* A JumpTrue on zero whose second slot is a negative Positional pointer.
C34_Witness ==
    /\ Stepped /\ PreOp = "JumpTrue" /\ PreReads(1) /\ PreVal(1) = 0
    /\ PreMode(2) = 0 /\ PreSlot(2) < 0 /\ PreNegative(2)
    /\ ReturnedRun /\ cpu.pc = pre.pc + 3

(***************************************************************************)
(* C35.  Reading never changes memory.                                     *)
(***************************************************************************)
PreOnlyReads == PreOp \in {"Write", "JumpTrue", "JumpFalse", "DeltaRelBase", "Stop"}

\* C35: a step of an instruction that only reads (Write, JumpTrue,
\* JumpFalse, DeltaRelBase, Stop) leaves the cells of memory and the
\* high-water mark exactly as they were, whatever it returns and wherever its
\* operands lie, an address never written and far above the high-water mark
\* included: the operand reads as 0 and ram() is the same before and after.
\* The same holds of every step that ends before it stores.
C35_ReadsDoNotGrowMemory ==
    Stepped =>
        /\ PreOnlyReads =>
             /\ cpu.ram.content = pre.ram.content /\ cpu.ram.top = pre.ram.top
             /\ pre.ram.top < 32 => ram(cpu) = ram(pre)
        /\ PreOp = "" => SameMemory
        /\ (PreStoring /\ ~ PreReachesStore) => SameMemory
        /\ (PreOp = "Write" /\ PreReads(1) /\ PreAddr(1) \notin DOMAIN pre.ram.content) =>
             last.outputs = <<0>>

\* A Write of the cell at the largest address, never written, from a program
\* of a few cells.
C35_Witness ==
    /\ Stepped /\ PreOp = "Write" /\ PreMode(1) = 0 /\ PreSlot(1) = WordMax
    /\ pre.ram.top < 8 /\ last.outputs = <<0>>
    /\ cpu.ram.top = pre.ram.top /\ ram(cpu) = ram(pre)

(***************************************************************************)
(* C36.  A load that is refused for a negative base.                       *)
(***************************************************************************)
\* The call just made on mem was a load, and it returned MemoryFault for a
\* negative base.
LoadRefused ==
    /\ probe'.op = "load"
    /\ probe'.err = "MemoryFault"
    /\ probe'.args[1] < 0

\* C36, as the claim states it: a load that returns MemoryFault because
\* base < 0 leaves the contents and the high-water mark of the Memory as
\* they were before the call, and with them what dump returns.
C36_AsClaimed ==
    [][LoadRefused =>
        /\ mem'.content = mem.content
        /\ mem'.top = mem.top
        /\ MemoryDump(mem') = MemoryDump(mem)]_vars

(***************************************************************************)
(* C32.  The program counter and a step that fails.                        *)
(***************************************************************************)
\* The last call was one execute_instruction call, the client's own or one
\* turn of a driver's loop, and it returned a fault.
StepFailed ==
    /\ last.op \in {"step", "run_with_io", "run_with_fixed_input"}
    /\ last.err \in CpuFaults

\* The pc is where it was before the call.
PcKept == StepFailed => cpu.pc = pre.pc

\* C32, as the claim states it: whenever execute_instruction returns a
\* fault, of whichever kind, the pc equals its value before the call, and
\* the next call fetches the same instruction: the word at pc is the word
\* the failed call fetched.
C32_AsClaimed ==
    StepFailed =>
        /\ cpu.pc = pre.pc
        /\ MemoryFetch(cpu.ram, cpu.pc) = MemoryFetch(pre.ram, pre.pc)

(***************************************************************************)
(* C31.  The amplifier chain.                                              *)
(***************************************************************************)
\* The input that amplifier k of the chain is to be given: the input of the
\* call for the first, the single word its predecessor wrote for the rest.
ChainX(k) == IF k = 1 THEN chain.input ELSE chain.runs[k - 1].outputs[1]

\* What the chain of the test's first amplifier program computes: each
\* amplifier turns its input x into 10 * x + phase.
RECURSIVE Thrust(_, _)
Thrust(phases, x) ==
    IF phases = <<>> THEN x ELSE Thrust(Tail(phases), 10 * x + Head(phases))

\* The amplifiers run so far were run in the order of phases, each on
\* [phases[k], x_k], and all but the last ran to Halt and wrote one word.
ChainWired ==
    /\ Len(chain.runs) <= Len(chain.phases)
    /\ \A k \in 1 .. Len(chain.runs) :
         /\ chain.runs[k].inputs = <<chain.phases[k], ChainX(k)>>
         /\ k < Len(chain.runs) =>
              chain.runs[k].err = "" /\ Len(chain.runs[k].outputs) = 1

\* The amplifier in progress is a new Processor at pc 0 holding the program
\* and nothing else, with the input list of its place in the chain.
ChainFresh ==
    chain.stage = "run" =>
        /\ feed.inputs = <<chain.phases[Len(chain.runs) + 1], ChainX(Len(chain.runs) + 1)>>
        /\ last.op = "load" =>
             /\ cpu = load(ProcessorNew(0), 0, chain.program, TRUE).p
             /\ output = <<>>
             /\ feed.fixed_it = feed.inputs

\* What the call returned: the word of the last amplifier once all have
\* run, or the fault of the amplifier that ran last.
ChainResult ==
    chain.result # <<>> =>
        LET n == Len(chain.runs)
            res == chain.result[1]
        IN  /\ res.err = "" =>
                /\ n = Len(chain.phases)
                /\ chain.runs[n].err = ""
                /\ chain.runs[n].outputs = <<res.val>>
                /\ chain.program \in AmplifierPrograms =>
                     res.val = Thrust(chain.phases, chain.input)
            /\ res.err \in CpuFaults => n >= 1 /\ chain.runs[n].err = res.err
            /\ res.err = "panic" =>
                \/ chain.phases = <<>>
                \/ n >= 1 /\ chain.runs[n].err = "" /\ Len(chain.runs[n].outputs) # 1

\* Once the call has returned no amplifier is constructed or run.
ChainOver == chain.result # <<>> => UNCHANGED <<chain, cpu, output, feed>>

\* C31: run_amplifier_chain(program, phases, input) runs one newly
\* constructed and loaded Processor per phase, in order, amplifier k on the
\* fixed input list [phases[k], x_k] with x_0 = input and x_{k+1} the single
\* word amplifier k wrote, and returns the last amplifier's word; a fault
\* of an amplifier is returned at once and the amplifiers after it are not
\* run.  (An amplifier that halts with no word or several written fails the
\* function's assertion.)
C31_AmplifierChain ==
    /\ [](chain # <<>> => ChainWired /\ ChainFresh /\ ChainResult)
    /\ [][ChainOver]_vars

\* C31 is witnessed by the chain of the test's program over phases 3, 2, 1,
\* 0 returning 3210.
C31_Witness ==
    /\ chain # <<>>
    /\ chain.program \in AmplifierPrograms
    /\ chain.phases = <<3, 2, 1, 0>>
    /\ chain.input = 0
    /\ Len(chain.runs) = 4
    /\ chain.result = ChainOk(3210)

(***************************************************************************)
(* C37.  What the feedback ring delivers to each amplifier.                *)
(***************************************************************************)
\* The amplifier whose words go onto the wire of amplifier i.
RingPred(i) == IF i = 1 THEN Len(ring.amps) ELSE i - 1

\* The first word passed to each amplifier is its own phase.
RingPhaseFirst ==
    \A i \in 1 .. Len(ring.amps) : ring.fed[i] # <<>> => ring.fed[i][1] = ring.phases[i]

\* Every later word passed to amplifier i is a word its predecessor has
\* handed to the output callback, or first_input when it is the first such
\* word of amplifier 0.
RingFedByPredecessor ==
    \A i \in 1 .. Len(ring.amps) : \A k \in 2 .. Len(ring.fed[i]) :
        \/ \E j \in 1 .. Len(ring.emitted[RingPred(i)]) :
             ring.emitted[RingPred(i)][j] = ring.fed[i][k]
        \/ i = 1 /\ k = 2 /\ ring.fed[i][k] = ring.first_input

\* Between calls of run_until_output, the words amplifier i's predecessor
\* has handed out (and first_input, for amplifier 0) are no more than the
\* words passed to amplifier i after its phase, the word waiting on its
\* wire, and the word the function returned from wire 0.
RingAllDelivered ==
    ring.call = <<>> =>
        \A i \in 1 .. Len(ring.amps) :
            Len(ring.emitted[RingPred(i)]) + (IF i = 1 THEN 1 ELSE 0)
              <= (IF ring.fed[i] = <<>> THEN 0 ELSE Len(ring.fed[i]) - 1)
                 + (IF ring.wires[i] # <<>> THEN 1 ELSE 0)
                 + (IF i = 1 /\ ring.result # <<>> /\ ring.result[1].err = "" THEN 1 ELSE 0)

\* C37, as the claim states it: in run_amplifier_loop each amplifier's first
\* input is its own phase, every later input of amplifier i is a word that
\* amplifier (i - 1) mod n put out (or first_input, for amplifier 0's first
\* input after its phase), and every word an amplifier puts out is
\* delivered to its successor.
C37_AsClaimed ==
    ring # <<>> => RingPhaseFirst /\ RingFedByPredecessor /\ RingAllDelivered

(***************************************************************************)
(* C38.  Whether the feedback ring comes to an end.                        *)
(***************************************************************************)
\* The for loop is between amplifiers, some amplifier is still running, and
\* no running amplifier has a phase to be handed or a word on its wire:
\* every turn of the loop from here on skips every amplifier.
RingStarved ==
    /\ ring.result = <<>>
    /\ ring.call = <<>>
    /\ \E i \in 1 .. Len(ring.amps) : ring.amps[i].running
    /\ \A i \in 1 .. Len(ring.amps) :
         ring.amps[i].running => ring.maybe_phases[i] = <<>> /\ ring.wires[i] = <<>>

\* C38, as the claim states it: run_amplifier_loop never comes to a state
\* in which some amplifier is running and no running amplifier has a phase
\* to be handed or a word on its wire, a state from which the loop goes
\* round for ever.
C38_AsClaimed == ring # <<>> => ~ RingStarved

====
